---- MODULE Spec2Model ----
(***************************************************************************)
(* Model of the measurement orchestration engine of wlan-scanner           *)
(* (src/src/measurement_orchestrator.py) together with the parts of        *)
(* src/src/models.py and src/src/error_handler.py it drives.               *)
(*                                                                         *)
(* One call of MeasurementOrchestrator.execute_measurement_cycle is a      *)
(* sequence of actions; the position in the method body is pc.  The        *)
(* collaborators (probes, validator checks, exporter, cleanup, event       *)
(* handlers) are the environment: each of their calls returns or raises,   *)
(* chosen nondeterministically.                                            *)
(***************************************************************************)
EXTENDS Integers, Sequences, FiniteSets, TLC

\* ---------------------------------------------------------------- bounds
MaxSteps == 2        \* longest Plan drawn freely (the default Plan has 5 steps)
MaxRetry == 2        \* largest retry_attempts drawn for a step
MaxHandlers == 1     \* handlers registered per event channel of an engine that runs
MaxRegistered == 2   \* handlers registered per event channel when only registering
MaxHeld == 2         \* default Plans the caller keeps for comparison
MaxMeasurements == 2 \* largest max_measurements drawn for continuous mode
MaxCalls == 3        \* run_single_measurement calls of one continuous run
MaxRecorded == 6     \* errors recorded on one error handler
MaxLimit == 3        \* largest max_history_size a client sets
MaxRuns == 2         \* runs made one after another on one engine

\* ------------------------------------------------------------ enumerations
MeasurementType == {"wifi_info", "ping", "iperf_tcp", "iperf_udp", "file_transfer"}

PENDING == "pending"
IN_PROGRESS == "in_progress"
COMPLETED == "completed"
FAILED == "failed"
SKIPPED == "skipped"
MeasurementStatus == {PENDING, IN_PROGRESS, COMPLETED, FAILED, SKIPPED}

EventNames == {"before_measurement", "after_measurement", "before_step", "after_step", "on_error"}

Handlers == {"h1"}

\* ------------------------------------------------------------------- state
VARIABLES
    pc,                      \* position in execute_measurement_cycle
    sequence,                \* the Plan of the current call
    idx,                     \* 1-based position of the step loop
    attempt,                 \* the retry loop's attempt (0-based, as in the code)
    step_success,            \* the local step_success
    current_measurement_id,  \* self._current_measurement_id
    step_results,            \* self._step_results
    callbacks,               \* self._callbacks
    measurement_result,      \* the Aggregate Record of the current call
    errors,                  \* the local errors list
    warnings,                \* the local warnings list
    aborted,                 \* the early return at the prerequisite gate is pending
    exc,                     \* an exception is propagating through finally
    outcome,                 \* the OrchestrationResult returned to the caller
    trace,                   \* events dispatched and collaborator calls, in order
    error_history,           \* ErrorHandler.error_history
    error_counts,            \* ErrorHandler.error_counts
    config,                  \* self.config
    built,                   \* the last call of a Plan builder: its arguments and its Plan
    held,                    \* the Plan the first create_default_sequence call returned
    reply,                   \* the exception the last register_callback call raised
    state,                   \* MainApplication.state
    returned,                \* the Run Outcomes the callers of earlier runs hold
    validation,              \* the last validate_prerequisites call made on its own
    error_handler,           \* the error handler's attributes besides counters and history
    main                     \* run_continuous_measurements: its position and locals

vars == <<pc, sequence, idx, attempt, step_success, current_measurement_id, step_results,
          callbacks, measurement_result, errors, warnings, aborted, exc, outcome, trace,
          error_history, error_counts, error_handler,
                   validation, returned, config, built, held, reply, state, main>>

\* Python's None, as an identifier and as a probe result.
None == "None"
NoResult == [idx |-> 0, att |-> 0]

\* ------------------------------------------------------------ data model
\* MeasurementStep.  timeout and the parameter bundle are forwarded to the probe
\* and do not influence the run loop.
MeasurementStep(t, e, to, s, r, p) ==
    [measurement_type |-> t, enabled |-> e, timeout |-> to, skip_on_error |-> s,
     retry_attempts |-> r, parameters |-> p]

\* An empty dict.
EmptyParams == [k \in {} |-> 0]

\* dict.update: the keys of u replace or extend those of d.
update(d, u) == [k \in (DOMAIN d) \cup (DOMAIN u) |-> IF k \in DOMAIN u THEN u[k] ELSE d[k]]

\* str.lower on the protocol names a configuration carries.
lower(str) ==
    CASE str = "SMB" -> "smb"
      [] str = "Http" -> "http"
      [] OTHER -> str

MeasurementSequence(st, v, c, x, cl) ==
    [steps |-> st, validate_prerequisites |-> v, continue_on_failure |-> c,
     export_results |-> x, cleanup_on_exit |-> cl]

\* MeasurementResult as constructed at the start of a run.
NewMeasurementResult(id) ==
    [measurement_id |-> id, wifi_info |-> NoResult, ping_results |-> <<>>,
     iperf_tcp_upload |-> NoResult, iperf_tcp_download |-> NoResult,
     iperf_udp_result |-> NoResult, file_transfer_result |-> NoResult, errors |-> <<>>]

\* The two read-only compatibility properties of MeasurementResult.
ping_result(mr) == IF Len(mr.ping_results) > 0 THEN mr.ping_results[1] ELSE NoResult
iperf_tcp_result(mr) == mr.iperf_tcp_upload

\* What the Run Outcome / callers read for a probe kind.
ResultField(mr, t) ==
    CASE t = "wifi_info" -> mr.wifi_info
      [] t = "ping" -> ping_result(mr)
      [] t = "iperf_tcp" -> iperf_tcp_result(mr)
      [] t = "iperf_udp" -> mr.iperf_udp_result
      [] t = "file_transfer" -> mr.file_transfer_result

\* MeasurementResult.add_error: the message is stored behind a timestamp prefix.
add_error_lost(mr, msg) == mr
add_error(mr, msg) == [mr EXCEPT !.errors = Append(@, [stamped |-> msg])]

\* Error / warning strings.  A string is modelled by the values it is formatted
\* from; the exception text of a probe failure identifies the failing call.
StepErrorMsg(step, i, att) ==
    [src |-> "step", kind |-> step.measurement_type, n |-> step.retry_attempts,
     idx |-> i, att |-> att, msg |-> "failed after attempts"]
IssueMsg(m) == [src |-> "prereq", kind |-> "-", n |-> 0, idx |-> 0, att |-> 0, msg |-> m]
ExportErrorMsg == [src |-> "export", kind |-> "-", n |-> 0, idx |-> 0, att |-> 0,
                   msg |-> "Failed to export measurement results"]
CleanupWarningMsg == [src |-> "cleanup", kind |-> "-", n |-> 0, idx |-> 0, att |-> 0,
                      msg |-> "Cleanup failed"]

\* One entry of the observed call history: an event dispatch (items: the
\* handlers it invoked, in order) or a collaborator call (res: its outcome;
\* items: the issues a validation returned).
Entry(op, kind, i, att, res, items) ==
    [op |-> op, kind |-> kind, idx |-> i, att |-> att, res |-> res, items |-> items]

\* ------------------------------------------------- Prerequisite Validator
\* The environment a validation sees: the outcome of each of its four checks.
\* "error" is a check that raises something the check's own handler does not
\* catch; target = "none" is an empty target list (the check is not made).
AllEnvs ==
    [wifi : {"ok", "down", "error"},
     target : {"ok", "unreachable", "error", "none"},
     iperf : {"ok", "unavailable", "error"},
     config : {"ok", "invalid", "error"}]

EnvOk == [wifi |-> "ok", target |-> "ok", iperf |-> "ok", config |-> "ok"]

\* The environments drawn during a run.
RunEnvs ==
    {EnvOk,
     [EnvOk EXCEPT !.wifi = "down"],
     [EnvOk EXCEPT !.target = "unreachable", !.config = "invalid"],
     [EnvOk EXCEPT !.iperf = "error"]}

\* True when a check raised into the catch-all handler of validate_prerequisites.
ValidateUnexpected(env) ==
    \/ env.wifi = "error"
    \/ env.target = "error"
    \/ env.iperf = "error"
    \/ env.config = "error"

\* Lines 196-228: the four checks are inside try/except Exception, so what a
\* check raises past its own handler does not leave validate_prerequisites.
ValidateCaught_not(env) == FALSE
ValidateCaught(env) == TRUE

\* No validate_prerequisites call was made on its own yet.
NoValidation == [called |-> FALSE]

validate_prerequisites_first(env) ==
    LET issues == IF env.wifi = "down" THEN <<"WiFi interface is not connected">>
                  ELSE IF env.target = "unreachable" THEN <<"Primary target is not reachable">>
                  ELSE IF env.iperf = "unavailable" THEN <<"iPerf3 server unavailable">>
                  ELSE IF env.config = "invalid" THEN <<"Configuration validation failed">>
                  ELSE <<>>
    IN  [ok |-> Len(issues) = 0, issues |-> issues]
validate_prerequisites(env) ==
    LET a == IF env.wifi = "down" THEN <<"WiFi interface is not connected">> ELSE <<>>
        b == IF env.target = "unreachable"
             THEN Append(a, "Primary target is not reachable") ELSE a
        c == IF env.iperf = "unavailable"
             THEN Append(b, "iPerf3 server unavailable") ELSE b
        d == IF env.config = "invalid"
             THEN Append(c, "Configuration validation failed") ELSE c
        u == "Unexpected error during validation"
        issues == IF env.wifi = "error" THEN <<u>>
                  ELSE IF env.target = "error" THEN Append(a, u)
                  ELSE IF env.iperf = "error" THEN Append(b, u)
                  ELSE IF env.config = "error" THEN Append(c, u)
                  ELSE d
    IN  [ok |-> Len(issues) = 0, issues |-> issues]

\* ------------------------------------------- Error-Classification Collaborator
max_history_size == 1000

ErrorContext(type, op) == [error_type |-> type, operation |-> op]

\* ErrorType: the types the engine and the application record.
ErrorType == {"measurement_error", "file_system_error"}

\* ErrorHandler.__init__: the attributes besides the counters and the history.
ErrorHandler == [max_history_size |-> max_history_size]

\* ErrorHandler._record_error on the counters.
count_error(counts, type) == [counts EXCEPT ![type] = @ + 1]

\* ErrorHandler._record_error on the history list.
record_error_oldest(hist, ctx, limit) ==
    LET h == Append(hist, ctx)
    IN  IF Len(h) > limit THEN SubSeq(h, 1, limit) ELSE h
record_error(hist, ctx, limit) ==
    LET h == Append(hist, ctx)
    IN  IF Len(h) > limit
        THEN SubSeq(h, Len(h) - limit + 1, Len(h))
        ELSE h

\* ------------------------------------------------------- Result Aggregator
\* _update_measurement_result.  ping_result and iperf_tcp_result are properties
\* of MeasurementResult without a setter: assigning to them raises
\* AttributeError and leaves the record as it was.
update_measurement_result_assign(mr, t, result) ==
    CASE t = "wifi_info" -> [mr |-> [mr EXCEPT !.wifi_info = result], raised |-> FALSE]
      [] t = "ping" -> [mr |-> mr, raised |-> TRUE]
      [] t = "iperf_tcp" -> [mr |-> mr, raised |-> TRUE]
      [] t = "iperf_udp" -> [mr |-> [mr EXCEPT !.iperf_udp_result = result], raised |-> FALSE]
      [] t = "file_transfer" ->
           [mr |-> [mr EXCEPT !.file_transfer_result = result], raised |-> FALSE]
update_measurement_result(mr, t, result) ==
    IF result = NoResult THEN [mr |-> mr, raised |-> FALSE]
    ELSE CASE t = "wifi_info" -> [mr |-> [mr EXCEPT !.wifi_info = result], raised |-> FALSE]
           [] t = "ping" -> [mr |-> mr, raised |-> TRUE]
           [] t = "iperf_tcp" -> [mr |-> mr, raised |-> TRUE]
           [] t = "iperf_udp" -> [mr |-> [mr EXCEPT !.iperf_udp_result = result], raised |-> FALSE]
           [] t = "file_transfer" ->
                [mr |-> [mr EXCEPT !.file_transfer_result = result], raised |-> FALSE]

\* ---------------------------------------------------------- Event Dispatcher
\* _execute_callbacks: every handler of the event is called in registration
\* order inside its own try/except.  raising is the set of positions whose
\* handler raises.  Result: the handlers invoked, and whether an exception
\* left the dispatcher.
execute_callbacks_stop(hs, raising) ==
    [invoked |-> IF raising = {} THEN hs
                 ELSE SubSeq(hs, 1, CHOOSE p \in raising : \A q \in raising : p <= q),
     escaped |-> FALSE]
execute_callbacks_nocatch(hs, raising) == [invoked |-> hs, escaped |-> raising # {}]
execute_callbacks(hs, raising) == [invoked |-> hs, escaped |-> FALSE]

\* ------------------------------------------------------------ Step Executor
\* The outcomes of one probe call: it raises, returns a typed result, or
\* returns None (collect_wifi_info does so when it cannot read the link).
ProbeOutcomes == {"raise", "result", "none"}

\* The value returned by the probe call made at attempt att (1-based) of step i.
ProbeResult(o, i, att) == IF o = "result" THEN [idx |-> i, att |-> att] ELSE NoResult

\* Line 320: the attempt that just failed was the last one of the budget.
LastAttempt_offbyone(att, step) == att = step.retry_attempts
LastAttempt(att, step) == att = step.retry_attempts - 1

\* Line 305: range(step.retry_attempts) has a value after att.
MoreAttempts_inclusive(att, step) == att + 1 <= step.retry_attempts
MoreAttempts(att, step) == att + 1 < step.retry_attempts

\* Line 339: stop processing further steps.
ShouldStop_noskip(success, step, seq) == ~success /\ ~seq.continue_on_failure
ShouldStop(success, step, seq) ==
    ~success /\ ~step.skip_on_error /\ ~seq.continue_on_failure

\* Line 293: the status written for a disabled step.
DisabledStatus_failed == FAILED
DisabledStatus == SKIPPED

\* Lines 345-355: the export call is wrapped in try/except Exception.
ExportCaught_not(o) == FALSE
ExportCaught(o) == TRUE

\* Lines 360-365: the cleanup call is wrapped in try/except Exception.
CleanupCaught_not(o) == FALSE
CleanupCaught(o) == TRUE

\* dict assignment d[k] = v
Put_lost(d, k, v) == [x \in DOMAIN d |-> IF x = k THEN v ELSE d[x]]
Put(d, k, v) == [x \in (DOMAIN d) \cup {k} |-> IF x = k THEN v ELSE d[x]]

EmptyDict == [x \in {} |-> PENDING]

\* Lines 273-288: the prerequisite gate.
GateAborts_inverted(valid, seq) == ~valid /\ seq.continue_on_failure
GateAborts(valid, seq) == ~valid /\ ~seq.continue_on_failure

\* Lines 268-286 and 357-370: the return of the aborted run is inside the try
\* statement, so the finally clause runs before the method is left.
AfterAbort_left == "done"
AfterAbort_export == "export"
AfterAbort == "finally"

ErrorsAfterGate_none(errs, v) == errs
ErrorsAfterGate(errs, v) == IF v.ok THEN errs ELSE errs \o v.issues
WarningsAfterGate(warns, v, seq) ==
    IF ~v.ok /\ seq.continue_on_failure THEN warns \o v.issues ELSE warns

\* ---------------------------------------------------------- Sequence Builder
\* Configuration: the fields the builders read, with the dataclass defaults.
BaseConfiguration ==
    [target_ips |-> <<"192.168.1.1">>, ping_count |-> 10, ping_size |-> 32,
     ping_interval |-> 1, iperf_server |-> "192.168.1.100", iperf_port |-> 5201,
     iperf_duration |-> 10, iperf_parallel |-> 1, iperf_udp_bandwidth |-> "10M",
     file_server |-> "192.168.1.100", file_size_mb |-> 100, file_protocol |-> "SMB"]

\* The configurations an engine is constructed with.
Configurations ==
    {BaseConfiguration,
     [BaseConfiguration EXCEPT !.target_ips = <<>>, !.ping_count = 4, !.iperf_duration = 60,
                               !.iperf_udp_bandwidth = "1M", !.file_protocol = "Http"]}

\* The timeout of the two throughput steps.
iperf_timeout_drift(cfg) == cfg.iperf_duration + 30 + (IF built.op = "none" THEN 0 ELSE 1)
iperf_timeout(cfg) == cfg.iperf_duration + 30

\* create_default_sequence: the five steps, in their fixed order.
DefaultSteps(cfg) ==
    << MeasurementStep("wifi_info", TRUE, 10, FALSE, 2, EmptyParams),
       MeasurementStep("ping", TRUE, 30, TRUE, 1,
          [targets |-> cfg.target_ips, count |-> cfg.ping_count, size |-> cfg.ping_size,
           interval |-> cfg.ping_interval]),
       MeasurementStep("iperf_tcp", TRUE, iperf_timeout(cfg), TRUE, 1,
          [server_ip |-> cfg.iperf_server, server_port |-> cfg.iperf_port,
           duration |-> cfg.iperf_duration, parallel |-> cfg.iperf_parallel]),
       MeasurementStep("iperf_udp", TRUE, iperf_timeout(cfg), TRUE, 1,
          [server_ip |-> cfg.iperf_server, server_port |-> cfg.iperf_port,
           duration |-> cfg.iperf_duration, bandwidth |-> cfg.iperf_udp_bandwidth]),
       MeasurementStep("file_transfer", TRUE, 300, TRUE, 1,
          [server_address |-> cfg.file_server, file_size_mb |-> cfg.file_size_mb,
           protocol |-> lower(cfg.file_protocol), direction |-> "download"]) >>

create_default_sequence(cfg) == MeasurementSequence(DefaultSteps(cfg), TRUE, TRUE, TRUE, TRUE)

\* create_custom_sequence, line 581: the default step is kept.
Selected_any(step, enabled_measurements) == TRUE
Selected(step, enabled_measurements) == step.measurement_type \in enabled_measurements

\* Lines 593-594: the timeout override of the step's kind, if there is one.
OverrideTimeout_first(step, timeout_overrides) ==
    IF DOMAIN timeout_overrides # {}
    THEN [step EXCEPT !.timeout =
             timeout_overrides[CHOOSE t \in DOMAIN timeout_overrides : TRUE]]
    ELSE step
OverrideTimeout(step, timeout_overrides) ==
    IF step.measurement_type \in DOMAIN timeout_overrides
    THEN [step EXCEPT !.timeout = timeout_overrides[step.measurement_type]]
    ELSE step

\* Lines 596-597: the parameter overrides of the step's kind are merged in.
OverrideParameters(step, parameter_overrides) ==
    IF step.measurement_type \in DOMAIN parameter_overrides
    THEN [step EXCEPT !.parameters = update(@, parameter_overrides[step.measurement_type])]
    ELSE step

\* Lines 583-597: the copy of a default step, with the overrides applied.
CustomStep(step, timeout_overrides, parameter_overrides) ==
    LET custom_step == MeasurementStep(step.measurement_type, TRUE, step.timeout,
                                       step.skip_on_error, step.retry_attempts,
                                       step.parameters)
    IN  OverrideParameters(OverrideTimeout(custom_step, timeout_overrides),
                           parameter_overrides)

\* create_custom_sequence.  Overrides that are None or empty are the empty map.
create_custom_sequence(cfg, enabled_measurements, timeout_overrides, parameter_overrides) ==
    LET Keep(step) == Selected(step, enabled_measurements)
        kept == SelectSeq(create_default_sequence(cfg).steps, Keep)
        custom_steps == [i \in 1..Len(kept) |->
                            CustomStep(kept[i], timeout_overrides, parameter_overrides)]
    IN  MeasurementSequence(custom_steps, TRUE, TRUE, TRUE, TRUE)

\* The override arguments drawn for create_custom_sequence.
TimeoutOverrides ==
    {EmptyParams, "ping" :> 5, "ping" :> 5 @@ "file_transfer" :> 60, "iperf_udp" :> 45}

ParameterOverrides ==
    {EmptyParams,
     "ping" :> [count |-> 3],
     "ping" :> [count |-> 3, size |-> 64] @@ "wifi_info" :> [interface |-> "wlan0"],
     "file_transfer" :> [protocol |-> "ftp", port |-> 2121] @@ "iperf_tcp" :> EmptyParams}

\* -------------------------------------------------------------- the inputs
StepOptions(K) ==
    [measurement_type : K, enabled : BOOLEAN, timeout : {10}, skip_on_error : BOOLEAN,
     retry_attempts : 0..MaxRetry, parameters : {EmptyParams}]

SeqsUpTo(S, n) == UNION {[1..k -> S] : k \in 0..n}

SequencesOver(StepLists) ==
    [steps : StepLists, validate_prerequisites : BOOLEAN, continue_on_failure : BOOLEAN,
     export_results : BOOLEAN, cleanup_on_exit : BOOLEAN]

\* Plans of one step of any kind, and longer Plans over one kind of each of the
\* two families of result fields (plain field, read-only property).
LoopKinds == {"wifi_info", "ping"}

FreeSequences ==
    SequencesOver(SeqsUpTo(StepOptions(MeasurementType), 1)
                  \cup SeqsUpTo(StepOptions(LoopKinds), MaxSteps))

RunId == "m1"

\* ------------------------------------------------------------ engine state
NoOutcome == [returned |-> FALSE]

\* ApplicationState as constructed.
ApplicationState == [running |-> TRUE, shutdown_requested |-> FALSE, measurement_count |-> 0]

\* run_continuous_measurements was not called yet.
NotStarted ==
    [pc |-> "idle", max_measurements |-> 0, interval |-> 0, sleep_time |-> 0,
     sleep_interval |-> 0, elapsed_sleep |-> 0, calls |-> 0, cycles |-> 0]

\* No builder call was made yet.
NoBuild == [op |-> "none"]

\* What register_callback raised: nothing, or ValueError("Unknown event: ...").
NoError == [error |-> "none", event |-> "-"]
ValueError(event) == [error |-> "ValueError", event |-> event]

OrchestrationResult_noerrors(id, mr, sr, t, errs, warns) ==
    [returned |-> TRUE, measurement_id |-> id, measurement_result |-> mr,
     step_results |-> sr, execution_time |-> t, errors |-> <<>>, warnings |-> warns]
OrchestrationResult(id, mr, sr, t, errs, warns) ==
    [returned |-> TRUE, measurement_id |-> id, measurement_result |-> mr,
     step_results |-> sr, execution_time |-> t, errors |-> errs, warnings |-> warns]

\* The engine after construction with one of the configurations cfgs.
InitWith(cfgs) ==
    /\ config \in cfgs
    /\ built = NoBuild
    /\ held = <<>>
    /\ reply = NoError
    /\ pc = "idle"
    /\ sequence = MeasurementSequence(<<>>, TRUE, FALSE, TRUE, TRUE)
    /\ idx = 0
    /\ attempt = 0
    /\ step_success = FALSE
    /\ current_measurement_id = None
    /\ step_results = EmptyDict
    /\ callbacks = [e \in EventNames |-> <<>>]
    /\ measurement_result = NewMeasurementResult(None)
    /\ errors = <<>>
    /\ warnings = <<>>
    /\ aborted = FALSE
    /\ exc = FALSE
    /\ outcome = NoOutcome
    /\ trace = <<>>
    /\ error_history = <<>>
    /\ error_counts = [t \in ErrorType |-> 0]
    /\ error_handler = ErrorHandler
    /\ validation = NoValidation
    /\ returned = <<>>
    /\ state = ApplicationState
    /\ main = NotStarted

Init == InitWith({BaseConfiguration})

CurStep == sequence.steps[idx]

\* Where the step loop goes when it moves on to position i.
LoopPc_offbyone(i, seq) == IF i >= Len(seq.steps) THEN "export" ELSE "loop"
LoopPc(i, seq) == IF i > Len(seq.steps) THEN "export" ELSE "loop"

\* The handlers that raise on every call; any other handler may raise or not
\* each time it is called.
FailingHandlers == {"failing"}

\* The positions of an event's handler list whose handler raises at a dispatch.
Raising(event) ==
    {R \in SUBSET (DOMAIN callbacks[event]) :
        \A p \in DOMAIN callbacks[event] : callbacks[event][p] \in FailingHandlers => p \in R}

\* register_callback on the channel table: the new table and what was raised.
register_callback_setdefault(cbs, event, callback) ==
    [callbacks |-> Put(cbs, event,
                       Append(IF event \in DOMAIN cbs THEN cbs[event] ELSE <<>>, callback)),
     raised |-> NoError]
register_callback(cbs, event, callback) ==
    IF event \notin DOMAIN cbs
    THEN [callbacks |-> cbs, raised |-> ValueError(event)]
    ELSE [callbacks |-> [cbs EXCEPT ![event] = Append(@, callback)], raised |-> NoError]

\* A call of register_callback; a channel takes at most max handlers.
RegisterCallback(Events, Hs, max) ==
    /\ pc = "idle"
    /\ \E e \in Events, h \in Hs :
          LET r == register_callback(callbacks, e, h)
          IN  /\ e \in DOMAIN callbacks => Len(callbacks[e]) < max
              /\ callbacks' = r.callbacks
              /\ reply' = r.raised
    /\ UNCHANGED <<pc, sequence, idx, attempt, step_success, current_measurement_id,
                   step_results, measurement_result, errors, warnings, aborted, exc,
                   outcome, trace, error_history, error_counts,
                   error_handler, validation, returned, config, built, held, state, main>>

\* A builder call returns its Plan to the caller, who keeps the default Plans
\* returned earlier, each with the builder called next.
HeldAfter(call, op) ==
    IF call.op = "create_default_sequence" /\ Len(held) < MaxHeld
    THEN Append(held, [plan |-> call.plan, next |-> op]) ELSE held

CreateDefaultSequence ==
    /\ pc = "idle"
    /\ built' = [op |-> "create_default_sequence", enabled_measurements |-> {},
                 timeout_overrides |-> EmptyParams, parameter_overrides |-> EmptyParams,
                 plan |-> create_default_sequence(config)]
    /\ held' = HeldAfter(built, "create_default_sequence")
    /\ UNCHANGED <<pc, sequence, idx, attempt, step_success, current_measurement_id,
                   step_results, callbacks, measurement_result, errors, warnings, aborted,
                   exc, outcome, trace, error_history, error_counts,
                   error_handler, validation, returned, config, reply, state, main>>

CreateCustomSequence ==
    /\ pc = "idle"
    /\ \E S \in SUBSET MeasurementType, to \in TimeoutOverrides, po \in ParameterOverrides :
          built' = [op |-> "create_custom_sequence", enabled_measurements |-> S,
                    timeout_overrides |-> to, parameter_overrides |-> po,
                    plan |-> create_custom_sequence(config, S, to, po)]
    /\ held' = HeldAfter(built, "create_custom_sequence")
    /\ UNCHANGED <<pc, sequence, idx, attempt, step_success, current_measurement_id,
                   step_results, callbacks, measurement_result, errors, warnings, aborted,
                   exc, outcome, trace, error_history, error_counts,
                   error_handler, validation, returned, config, reply, state, main>>

\* Lines 245-267: the call starts, state is reset, before_measurement is fired.
ExecuteStart(Seqs) ==
    /\ pc = "idle"
    /\ \E seq \in Seqs, raising \in Raising("before_measurement") :
          LET d == execute_callbacks(callbacks["before_measurement"], raising)
          IN  /\ sequence' = seq
              /\ trace' = Append(trace, Entry("before_measurement", "-", 0, 0, "-", d.invoked))
              /\ pc' = IF d.escaped THEN "raised" ELSE "validate"
    /\ current_measurement_id' = RunId
    /\ step_results' = EmptyDict
    /\ measurement_result' = NewMeasurementResult(RunId)
    /\ errors' = <<>>
    /\ warnings' = <<>>
    /\ UNCHANGED <<idx, attempt, step_success, callbacks, aborted,
                   exc, outcome, error_history, error_counts,
                   error_handler, validation, returned, config, built, held, reply, state, main>>

\* Lines 271-288: the prerequisite gate.
Validate ==
    /\ pc = "validate"
    /\ IF ~sequence.validate_prerequisites
       THEN /\ pc' = LoopPc(1, sequence)
            /\ UNCHANGED <<errors, warnings, aborted, trace, error_history, error_counts>>
       ELSE \E env \in RunEnvs :
               LET v == validate_prerequisites(env)
                   issues == [i \in 1..Len(v.issues) |-> IssueMsg(v.issues[i])]
                   w == [ok |-> v.ok, issues |-> issues]
               IN  /\ trace' = Append(trace, Entry("validate", "-", 0, 0,
                                                   IF v.ok THEN "ok" ELSE "issues", v.issues))
                   /\ error_history' =
                        IF ValidateUnexpected(env)
                        THEN record_error(error_history,
                                 ErrorContext("measurement_error", "validate_prerequisites"),
                            error_handler.max_history_size)
                        ELSE error_history
                   /\ error_counts' =
                        IF ValidateUnexpected(env)
                        THEN count_error(error_counts, "measurement_error")
                        ELSE error_counts
                   /\ errors' = ErrorsAfterGate(errors, w)
                   /\ IF GateAborts(v.ok, sequence)
                      THEN /\ aborted' = TRUE
                           /\ pc' = AfterAbort
                           /\ UNCHANGED warnings
                      ELSE /\ warnings' = WarningsAfterGate(warnings, w, sequence)
                           /\ pc' = LoopPc(1, sequence)
                           /\ UNCHANGED aborted
    /\ idx' = 1
    /\ UNCHANGED <<sequence, attempt, step_success, current_measurement_id, step_results,
                   callbacks, measurement_result, exc, outcome,
                   error_handler, validation, returned, config, built, held, reply, state, main>>

\* Lines 292-294: a disabled step.
StepSkip ==
    /\ pc = "loop"
    /\ ~CurStep.enabled
    /\ step_results' = Put(step_results, CurStep.measurement_type, DisabledStatus)
    /\ idx' = idx + 1
    /\ pc' = LoopPc(idx + 1, sequence)
    /\ UNCHANGED <<sequence, attempt, step_success, current_measurement_id, callbacks,
                   measurement_result, errors, warnings, aborted, exc, outcome, trace,
                   error_history, error_counts,
                   error_handler, validation, returned, config, built, held, reply, state, main>>

\* Lines 296-303: an enabled step starts.
StepBegin ==
    /\ pc = "loop"
    /\ CurStep.enabled
    /\ step_results' = Put(step_results, CurStep.measurement_type, IN_PROGRESS)
    /\ \E raising \in Raising("before_step") :
          LET d == execute_callbacks(callbacks["before_step"], raising)
          IN  /\ trace' = Append(trace, Entry("before_step", CurStep.measurement_type,
                                              idx, 0, "-", d.invoked))
              /\ exc' = d.escaped
              /\ pc' = IF d.escaped THEN "finally"
                       ELSE IF CurStep.retry_attempts > 0 THEN "attempt" ELSE "after_step"
    /\ step_success' = FALSE
    /\ attempt' = 0
    /\ UNCHANGED <<sequence, idx, current_measurement_id, callbacks, measurement_result,
                   errors, warnings, aborted, outcome, error_history, error_counts,
                   error_handler, validation, returned, config, built, held, reply, state, main>>

\* Lines 305-333: one attempt of the retry loop.  The probe call and the merge
\* of its result are inside one try; an exception of either is the attempt's
\* failure.
Attempt ==
    /\ pc = "attempt"
    /\ \E o \in ProbeOutcomes, raising \in Raising("on_error") :
          LET step == CurStep
              kind == step.measurement_type
              result == ProbeResult(o, idx, attempt + 1)
              u == IF o = "raise"
                   THEN [mr |-> measurement_result, raised |-> TRUE]
                   ELSE update_measurement_result(measurement_result, kind, result)
              last == LastAttempt(attempt, step)
              msg == StepErrorMsg(step, idx, attempt + 1)
              d == execute_callbacks(callbacks["on_error"], raising)
              call == Entry("probe", kind, idx, attempt + 1, o, <<>>)
          IN  IF ~u.raised
              THEN /\ measurement_result' = u.mr
                   /\ step_results' = Put(step_results, kind, COMPLETED)
                   /\ step_success' = TRUE
                   /\ trace' = Append(trace, call)
                   /\ pc' = "after_step"
                   /\ UNCHANGED <<errors, error_history, error_counts, exc>>
              ELSE IF last
              THEN /\ step_results' = Put(step_results, kind, FAILED)
                   /\ errors' = Append(errors, msg)
                   /\ measurement_result' = add_error(measurement_result, msg)
                   /\ error_history' =
                        record_error(error_history,
                                     ErrorContext("measurement_error", <<"execute", kind>>),
                            error_handler.max_history_size)
                   /\ error_counts' = count_error(error_counts, "measurement_error")
                   /\ trace' = trace \o <<call, Entry("on_error", kind, idx, attempt + 1,
                                                      "-", d.invoked)>>
                   /\ exc' = d.escaped
                   /\ pc' = IF d.escaped THEN "finally"
                            ELSE IF MoreAttempts(attempt, step) THEN "attempt"
                            ELSE "after_step"
                   /\ UNCHANGED step_success
              ELSE /\ trace' = Append(trace, call)
                   /\ pc' = IF MoreAttempts(attempt, step) THEN "attempt"
                            ELSE "after_step"
                   /\ UNCHANGED <<measurement_result, step_results, step_success, errors,
                                  error_history, error_counts, exc>>
    /\ attempt' = attempt + 1
    /\ UNCHANGED <<sequence, idx, current_measurement_id, callbacks, warnings, aborted,
                   outcome,
                   error_handler, validation, returned, config, built, held, reply, state, main>>

\* Lines 335-341: after_step is fired, then the stop check.
AfterStep ==
    /\ pc = "after_step"
    /\ \E raising \in Raising("after_step") :
          LET d == execute_callbacks(callbacks["after_step"], raising)
              stop == ShouldStop(step_success, CurStep, sequence)
          IN  /\ trace' = Append(trace, Entry("after_step", CurStep.measurement_type, idx, 0,
                                              IF step_success THEN "true" ELSE "false",
                                              d.invoked))
              /\ exc' = d.escaped
              /\ idx' = IF d.escaped \/ stop THEN idx ELSE idx + 1
              /\ pc' = IF d.escaped THEN "finally"
                       ELSE IF stop THEN "export"
                       ELSE LoopPc(idx + 1, sequence)
    /\ UNCHANGED <<sequence, attempt, step_success, current_measurement_id, step_results,
                   callbacks, measurement_result, errors, warnings, aborted, outcome,
                   error_history, error_counts,
                   error_handler, validation, returned, config, built, held, reply, state, main>>

\* Lines 343-355: export of the Aggregate Record.
Export ==
    /\ pc = "export"
    /\ IF ~sequence.export_results
       THEN UNCHANGED <<errors, trace, error_history, error_counts, exc>>
       ELSE \E o \in {"ok", "raise"} :
               /\ trace' = Append(trace, Entry("export", "-", 0, 0, o, <<>>))
               /\ IF o = "raise" /\ ExportCaught(o)
                  THEN /\ errors' = Append(errors, ExportErrorMsg)
                       /\ error_history' =
                            record_error(error_history,
                                         ErrorContext("file_system_error", "export_results"),
                            error_handler.max_history_size)
                       /\ error_counts' = count_error(error_counts, "file_system_error")
                  ELSE UNCHANGED <<errors, error_history, error_counts>>
               /\ exc' = (o = "raise" /\ ~ExportCaught(o))
    /\ pc' = "finally"
    /\ UNCHANGED <<sequence, idx, attempt, step_success, current_measurement_id, step_results,
                   callbacks, measurement_result, warnings, aborted, outcome,
                   error_handler, validation, returned, config, built, held, reply, state, main>>

\* Lines 357-384 (and the pending return of lines 279-286): cleanup,
\* after_measurement, the identifier is cleared, the Run Outcome is returned.
\* An exception that reached the finally block, or left it, reaches the caller.
Finally ==
    /\ pc = "finally"
    /\ \E o \in {"ok", "raise"}, raising \in Raising("after_measurement") :
          LET clean == sequence.cleanup_on_exit
              leak == clean /\ o = "raise" /\ ~CleanupCaught(o)
              d == execute_callbacks(callbacks["after_measurement"], raising)
              warns == IF clean /\ o = "raise" /\ ~leak
                       THEN Append(warnings, CleanupWarningMsg) ELSE warnings
              calls == IF clean THEN <<Entry("cleanup", "-", 0, 0, o, <<>>)>> ELSE <<>>
              fired == IF leak THEN <<>>
                       ELSE <<Entry("after_measurement", "-", 0, 0, "-", d.invoked)>>
              raised == exc \/ leak \/ d.escaped
          IN  /\ (~clean => o = "ok")
              /\ warnings' = warns
              /\ trace' = trace \o calls \o fired
              /\ current_measurement_id' =
                    IF leak \/ d.escaped THEN current_measurement_id ELSE None
              /\ pc' = IF raised THEN "raised" ELSE "done"
              /\ outcome' =
                    IF raised THEN outcome
                    ELSE OrchestrationResult(RunId, measurement_result, step_results,
                                             IF aborted THEN "zero" ELSE "elapsed",
                                             errors, warns)
    /\ UNCHANGED <<sequence, idx, attempt, step_success, step_results, callbacks,
                   measurement_result, errors, aborted, exc, error_history, error_counts,
                   error_handler, validation, returned, config, built, held, reply, state, main>>

RunNext ==
    \/ Validate
    \/ StepSkip
    \/ StepBegin
    \/ Attempt
    \/ AfterStep
    \/ Export
    \/ Finally

\* Runs of freely drawn Plans on an engine without handlers.
Next ==
    \/ ExecuteStart(FreeSequences \cup {create_default_sequence(config)})
    \/ RunNext

Spec == Init /\ [][Next]_vars

\* Runs on an engine whose event channels carry handlers; a handler may raise
\* each time it is called.
CallbackSequences ==
    [steps : SeqsUpTo({s \in StepOptions(LoopKinds) :
                          s.retry_attempts >= 1 /\ ~s.skip_on_error}, MaxSteps),
     validate_prerequisites : BOOLEAN, continue_on_failure : BOOLEAN,
     export_results : {TRUE}, cleanup_on_exit : {TRUE}]

NextCallbacks ==
    \/ RegisterCallback(EventNames, Handlers, MaxHandlers)
    \/ ExecuteStart(CallbackSequences)
    \/ RunNext

\* The same runs, with the method body making progress: every call it makes
\* returns or raises, so a started run takes its next step.
SpecLive == Spec /\ WF_vars(RunNext)

SpecCallbacks == Init /\ [][NextCallbacks]_vars

\* The Plan builders, called any number of times on an engine of any
\* configuration.
NextBuilder ==
    \/ CreateDefaultSequence
    \/ CreateCustomSequence

SpecBuilder == InitWith(Configurations) /\ [][NextBuilder]_vars

\* Runs on an engine whose channels carry several handlers, some of which
\* always raise.
DispatchEvents == {"before_measurement", "after_step", "on_error"}
DispatchHandlers == {"h1", "failing"}

DispatchSequences ==
    [steps : SeqsUpTo({s \in StepOptions({"wifi_info"}) :
                          s.retry_attempts >= 1 /\ ~s.skip_on_error}, 1),
     validate_prerequisites : {FALSE}, continue_on_failure : {TRUE},
     export_results : {FALSE}, cleanup_on_exit : {FALSE}]

NextDispatch ==
    \/ RegisterCallback(DispatchEvents, DispatchHandlers, MaxRegistered)
    \/ ExecuteStart(DispatchSequences)
    \/ RunNext

SpecDispatch == Init /\ [][NextDispatch]_vars

\* ------------------------------------------------------- Main application
\* The parameters of execute_measurement_cycle besides self, and the keyword
\* arguments run_single_measurement passes next to the positional sequence.
CycleParameters == {"sequence", "measurement_id"}
CycleCallKeywords == {"location"}

\* A Python call binds: every keyword names a parameter (else TypeError).
CallAccepted_any(keywords, parameters) == TRUE
CallAccepted(keywords, parameters) == keywords \subseteq parameters

\* Seconds: the intervals of continuous mode and the durations of a
\* run_single_measurement call.
Intervals == {0, 7, 12}
Durations == {0, 2, 20}
SleepChunk == 5

Min(a, b) == IF a < b THEN a ELSE b
Max(a, b) == IF a > b THEN a ELSE b

\* Line 607 (and 624, 631): the loop may go on.
KeepRunning(st) == st.running /\ ~st.shutdown_requested

\* _signal_handler on ApplicationState, first signal.
signal_handler_flagonly(st) == [st EXCEPT !.shutdown_requested = TRUE]
signal_handler(st) == [st EXCEPT !.shutdown_requested = TRUE, !.running = FALSE]

\* run_continuous_measurements is called (lines 590-606).
StartContinuous ==
    /\ main.pc = "idle"
    /\ pc = "idle"
    /\ \E m \in 0..MaxMeasurements, interval \in Intervals :
          main' = [main EXCEPT !.pc = "loop", !.max_measurements = m, !.interval = interval]
    /\ UNCHANGED <<pc, sequence, idx, attempt, step_success, current_measurement_id,
                   step_results, callbacks, measurement_result, errors, warnings, aborted,
                   exc, outcome, trace, error_history, error_counts,
                   error_handler, validation, returned, config, built, held,
                   reply, state>>

\* Lines 607-611: the while test and the test of the maximum.  A continuous
\* run makes at most MaxCalls calls of run_single_measurement.
LoopTest ==
    /\ main.pc = "loop"
    /\ IF ~KeepRunning(state)
       THEN main' = [main EXCEPT !.pc = "finally"]
       ELSE IF main.max_measurements # 0
               /\ state.measurement_count >= main.max_measurements
       THEN main' = [main EXCEPT !.pc = "finally"]
       ELSE /\ main.calls < MaxCalls
            /\ main' = [main EXCEPT !.pc = "measure"]
    /\ UNCHANGED <<pc, sequence, idx, attempt, step_success, current_measurement_id,
                   step_results, callbacks, measurement_result, errors, warnings, aborted,
                   exc, outcome, trace, error_history, error_counts,
                   error_handler, validation, returned, config, built, held,
                   reply, state>>

\* Lines 614-622 with run_single_measurement (lines 541-588): the engine is
\* called; a call that binds runs one cycle and is counted, a call that does
\* not bind raises TypeError into the except branch, which records it.
RunSingleMeasurement ==
    /\ main.pc = "measure"
    /\ \E duration \in Durations :
          LET bound == CallAccepted(CycleCallKeywords, CycleParameters)
          IN  /\ main' = [main EXCEPT !.pc = "sleep_test",
                                       !.calls = @ + 1,
                                       !.cycles = IF bound THEN @ + 1 ELSE @,
                                       !.sleep_time = Max(0, main.interval - duration)]
              /\ state' = [state EXCEPT !.measurement_count = IF bound THEN @ + 1 ELSE @]
              /\ error_history' =
                    IF bound THEN error_history
                    ELSE record_error(error_history,
                            ErrorContext("measurement_error", "run_single_measurement"),
                            error_handler.max_history_size)
              /\ error_counts' =
                    IF bound THEN error_counts
                    ELSE count_error(error_counts, "measurement_error")
    /\ UNCHANGED <<pc, sequence, idx, attempt, step_success, current_measurement_id,
                   step_results, callbacks, measurement_result, errors, warnings, aborted,
                   exc, outcome, trace, error_handler, validation,
                   returned, config, built, held, reply>>

\* Lines 624-629: whether to sleep before the next measurement.
SleepTest ==
    /\ main.pc = "sleep_test"
    /\ IF main.sleep_time > 0 /\ KeepRunning(state)
       THEN main' = [main EXCEPT !.pc = "sleep_loop",
                                 !.sleep_interval = Min(SleepChunk, main.sleep_time),
                                 !.elapsed_sleep = 0]
       ELSE main' = [main EXCEPT !.pc = "loop"]
    /\ UNCHANGED <<pc, sequence, idx, attempt, step_success, current_measurement_id,
                   step_results, callbacks, measurement_result, errors, warnings, aborted,
                   exc, outcome, trace, error_history, error_counts,
                   error_handler, validation, returned, config, built, held,
                   reply, state>>

\* Line 631: the test of the chunked sleep.
SleepLoopTest ==
    /\ main.pc = "sleep_loop"
    /\ IF main.elapsed_sleep < main.sleep_time /\ KeepRunning(state)
       THEN main' = [main EXCEPT !.pc = "sleeping"]
       ELSE main' = [main EXCEPT !.pc = "loop"]
    /\ UNCHANGED <<pc, sequence, idx, attempt, step_success, current_measurement_id,
                   step_results, callbacks, measurement_result, errors, warnings, aborted,
                   exc, outcome, trace, error_history, error_counts,
                   error_handler, validation, returned, config, built, held,
                   reply, state>>

\* Lines 632-634: one chunk of sleep.
Sleep ==
    /\ main.pc = "sleeping"
    /\ LET elapsed == main.elapsed_sleep + main.sleep_interval
       IN  main' = [main EXCEPT !.pc = "sleep_loop",
                                !.elapsed_sleep = elapsed,
                                !.sleep_interval = Min(@, main.sleep_time - elapsed)]
    /\ UNCHANGED <<pc, sequence, idx, attempt, step_success, current_measurement_id,
                   step_results, callbacks, measurement_result, errors, warnings, aborted,
                   exc, outcome, trace, error_history, error_counts,
                   error_handler, validation, returned, config, built, held,
                   reply, state>>

\* Lines 645-646: the summary is printed and the method returns.
FinallySummary ==
    /\ main.pc = "finally"
    /\ main' = [main EXCEPT !.pc = "returned"]
    /\ UNCHANGED <<pc, sequence, idx, attempt, step_success, current_measurement_id,
                   step_results, callbacks, measurement_result, errors, warnings, aborted,
                   exc, outcome, trace, error_history, error_counts,
                   error_handler, validation, returned, config, built, held,
                   reply, state>>

\* _signal_handler, run between two steps of continuous mode: the first signal
\* requests shutdown; a later one raises SystemExit, which no handler of
\* run_continuous_measurements catches.
Signal ==
    /\ main.pc \notin {"idle", "returned", "exited"}
    /\ IF ~state.shutdown_requested
       THEN /\ state' = signal_handler(state)
            /\ UNCHANGED main
       ELSE /\ main' = [main EXCEPT !.pc = "exited"]
            /\ UNCHANGED state
    /\ UNCHANGED <<pc, sequence, idx, attempt, step_success, current_measurement_id,
                   step_results, callbacks, measurement_result, errors, warnings, aborted,
                   exc, outcome, trace, error_history, error_counts,
                   error_handler, validation, returned, config, built, held,
                   reply>>

ContinuousNext ==
    \/ LoopTest
    \/ RunSingleMeasurement
    \/ SleepTest
    \/ SleepLoopTest
    \/ Sleep
    \/ FinallySummary

NextMain ==
    \/ StartContinuous
    \/ ContinuousNext
    \/ Signal

\* Continuous mode: the loop makes progress; signals arrive at any time.
SpecMain == Init /\ [][NextMain]_vars /\ WF_vars(ContinuousNext)

\* ------------------------------------------------- Runs one after another
\* A Run Outcome a caller holds: the value it had when it was returned, and
\* whether its step_results is the dict object self._step_results names (the
\* early return of lines 279-286 passes the dict itself, the return of lines
\* 377-384 a copy).
Held(o, was_aborted) == [at_return |-> o, live |-> was_aborted]

\* Line 252: self._step_results is bound to a new dict; the dict it named
\* before is no longer the engine's.
ResetStepResults_inplace(rs) == rs
ResetStepResults(rs) == [i \in DOMAIN rs |-> [rs[i] EXCEPT !.live = FALSE]]

\* The value a held Run Outcome has now.
Current(h) ==
    IF h.live THEN [h.at_return EXCEPT !.step_results = step_results] ELSE h.at_return

\* Plans of the runs made one after another.
RunsSequences ==
    [steps : SeqsUpTo({s \in StepOptions(LoopKinds) :
                          s.retry_attempts = 1 /\ ~s.skip_on_error}, 1),
     validate_prerequisites : BOOLEAN, continue_on_failure : BOOLEAN,
     export_results : BOOLEAN, cleanup_on_exit : BOOLEAN]

\* execute_measurement_cycle is called again on the engine after a run
\* returned (lines 250-267): the caller keeps the outcome of that run.
ExecuteAgain(Seqs) ==
    /\ pc = "done"
    /\ Len(returned) + 1 < MaxRuns
    /\ returned' = ResetStepResults(Append(returned, Held(outcome, aborted)))
    /\ \E seq \in Seqs, raising \in Raising("before_measurement") :
          LET d == execute_callbacks(callbacks["before_measurement"], raising)
          IN  /\ sequence' = seq
              /\ trace' = <<Entry("before_measurement", "-", 0, 0, "-", d.invoked)>>
              /\ pc' = IF d.escaped THEN "raised" ELSE "validate"
    /\ current_measurement_id' = RunId
    /\ step_results' = EmptyDict
    /\ measurement_result' = NewMeasurementResult(RunId)
    /\ errors' = <<>>
    /\ warnings' = <<>>
    /\ aborted' = FALSE
    /\ outcome' = NoOutcome
    /\ idx' = 0
    /\ attempt' = 0
    /\ step_success' = FALSE
    /\ UNCHANGED <<callbacks, exc, error_history, error_counts, error_handler, validation,
                   config, built, held, reply, state, main>>

NextRuns ==
    \/ ExecuteStart(RunsSequences)
    \/ ExecuteAgain(RunsSequences)
    \/ RunNext

SpecRuns == Init /\ [][NextRuns]_vars

\* ---------------------------------------------------------- Validator alone
\* validate_prerequisites called on its own, in any environment: it returns
\* (ok, issues); a check that raised into the catch-all handler was recorded
\* with the error handler.
ValidatePrerequisites ==
    /\ error_counts["measurement_error"] < MaxRecorded
    /\ \E env \in AllEnvs :
          LET v == validate_prerequisites(env)
              caught == ValidateCaught(env)
          IN  /\ validation' =
                    IF ValidateUnexpected(env) /\ ~caught
                    THEN [called |-> TRUE, env |-> env, raised |-> TRUE,
                          ok |-> FALSE, issues |-> <<>>]
                    ELSE [called |-> TRUE, env |-> env, raised |-> FALSE,
                          ok |-> v.ok, issues |-> v.issues]
              /\ IF ValidateUnexpected(env) /\ caught
                 THEN /\ error_history' =
                           record_error(error_history,
                               ErrorContext("measurement_error", "validate_prerequisites"),
                               error_handler.max_history_size)
                      /\ error_counts' = count_error(error_counts, "measurement_error")
                 ELSE UNCHANGED <<error_history, error_counts>>
    /\ UNCHANGED <<pc, sequence, idx, attempt, step_success, current_measurement_id,
                   step_results, callbacks, measurement_result, errors, warnings, aborted,
                   exc, outcome, trace, error_handler, returned, config, built, held, reply, state,
                   main>>

NextValidator == ValidatePrerequisites

SpecValidator == Init /\ [][NextValidator]_vars

\* ------------------------------------------------------ Error handler alone
Sum(counts) == counts["measurement_error"] + counts["file_system_error"]

\* A client sets max_history_size on a fresh handler, as its test does.
SetMaxHistorySize ==
    /\ error_history = <<>>
    /\ Sum(error_counts) = 0
    /\ error_handler = ErrorHandler
    /\ \E n \in 1..MaxLimit : error_handler' = [error_handler EXCEPT !.max_history_size = n]
    /\ UNCHANGED <<pc, sequence, idx, attempt, step_success, current_measurement_id,
                   step_results, callbacks, measurement_result, errors, warnings, aborted,
                   exc, outcome, trace, error_history, error_counts,
                   validation, returned, config, built, held,
                   reply, state, main>>

\* One handle_*_error call: _record_error counts the error, appends its
\* context and trims the history; the error callbacks it then calls are each
\* caught.  The operation names the call: the n-th error recorded.
RecordError ==
    /\ Sum(error_counts) < MaxRecorded
    /\ \E type \in ErrorType :
          /\ error_counts' = count_error(error_counts, type)
          /\ error_history' =
                record_error(error_history,
                             ErrorContext(type, <<"record", Sum(error_counts) + 1>>),
                             error_handler.max_history_size)
    /\ UNCHANGED <<pc, sequence, idx, attempt, step_success, current_measurement_id,
                   step_results, callbacks, measurement_result, errors, warnings, aborted,
                   exc, outcome, trace, error_handler,
                   validation, returned, config, built, held, reply, state,
                   main>>

NextErrors ==
    \/ SetMaxHistorySize
    \/ RecordError

SpecErrors == Init /\ [][NextErrors]_vars

\* Registration alone, with recognised and unrecognised event names.
RegisterNames == EventNames \cup {"on_finish", "before_run"}
RegisterHandlers == {"h1", "h2"}

NextRegister == RegisterCallback(RegisterNames, RegisterHandlers, MaxRegistered)

SpecRegister == Init /\ [][NextRegister]_vars

\* ================================================================ properties
StepIdx == DOMAIN sequence.steps
Kind(i) == sequence.steps[i].measurement_type

\* The probe calls made for step i, as positions of the history.
ProbeCalls(i) == {j \in DOMAIN trace : trace[j].op = "probe" /\ trace[j].idx = i}

\* The error strings of an error list that step i appended.
StepErrors(errs, i) == {j \in DOMAIN errs : errs[j].src = "step" /\ errs[j].idx = i}

\* The retry loop of step i is over.
AttemptsOver(i) ==
    \/ pc = "after_step" /\ idx = i
    \/ \E j \in DOMAIN trace : trace[j].op = "after_step" /\ trace[j].idx = i

\* No step after i has the kind of step i (statuses are keyed by kind).
NoLaterSameKind(i) == \A j \in StepIdx : j > i => Kind(j) # Kind(i)

\* A Plan as the data model describes it: retry budgets of at least 1 and no
\* kind listed twice.
WellFormedPlan ==
    /\ \A i \in StepIdx : sequence.steps[i].retry_attempts >= 1
    /\ \A i, j \in StepIdx : i # j => Kind(i) # Kind(j)

StatusIs(sr, t, st) == t \in DOMAIN sr /\ sr[t] = st

Calls(op, res) == {j \in DOMAIN trace : trace[j].op = op /\ trace[j].res = res}

IsEvent(e) == e.op \in EventNames

\* The events fired so far, in order, each with the step it was fired for.
Observed ==
    LET ev == SelectSeq(trace, IsEvent)
    IN  [j \in 1..Len(ev) |-> [op |-> ev[j].op, idx |-> ev[j].idx]]

RECURSIVE ExpectedStepEvents(_)
ExpectedStepEvents(i) ==
    IF i > Len(sequence.steps) THEN <<>>
    ELSE (IF sequence.steps[i].enabled
          THEN <<[op |-> "before_step", idx |-> i], [op |-> "after_step", idx |-> i]>>
          ELSE <<>>) \o ExpectedStepEvents(i + 1)

\* C1: a call of execute_measurement_cycle never raises to its caller: whatever
\* checks, probe attempts, export, cleanup and handlers fail, no exception is
\* left propagating and the call ends by returning a Run Outcome that carries
\* the error and warning lists.
C1_NoEscape ==
    /\ pc # "raised"
    /\ ~exc
    /\ pc = "done" =>
          /\ outcome.returned
          /\ outcome.errors = errors
          /\ outcome.warnings = warnings

\* A returned run in which a check, a probe, the export and the cleanup failed
\* and handlers were invoked.
C1_Witness ==
    /\ pc = "done"
    /\ outcome.returned
    /\ Calls("validate", "issues") # {}
    /\ Calls("probe", "raise") # {}
    /\ Calls("export", "raise") # {}
    /\ Calls("cleanup", "raise") # {}
    /\ \A j \in DOMAIN trace : IsEvent(trace[j]) => trace[j].items # <<>>
    /\ \E j \in DOMAIN trace : trace[j].op = "on_error"

\* C2: an enabled step with retry_attempts = N >= 1 whose probe call raises on
\* every attempt: the probe is called exactly N times, the step's status is
\* failed, and the error list holds exactly one error string of that step.
C2_ExhaustedRetries ==
    \A i \in StepIdx :
       LET st == sequence.steps[i]
           calls == ProbeCalls(i)
       IN  (/\ st.enabled
            /\ st.retry_attempts >= 1
            /\ AttemptsOver(i)
            /\ \A j \in calls : trace[j].res = "raise")
           => /\ Cardinality(calls) = st.retry_attempts
              /\ Cardinality(StepErrors(errors, i)) = 1
              /\ NoLaterSameKind(i) => StatusIs(step_results, Kind(i), FAILED)
              /\ pc = "done" =>
                    /\ Cardinality(StepErrors(outcome.errors, i)) = 1
                    /\ NoLaterSameKind(i) => StatusIs(outcome.step_results, Kind(i), FAILED)

C2_Witness ==
    /\ pc = "done"
    /\ \E i \in StepIdx :
          /\ sequence.steps[i].enabled
          /\ sequence.steps[i].retry_attempts = 2
          /\ Cardinality(ProbeCalls(i)) = 2
          /\ \A j \in ProbeCalls(i) : trace[j].res = "raise"
          /\ StatusIs(outcome.step_results, Kind(i), FAILED)

\* C3: an enabled step of any kind whose probe raises on attempts 1..k-1 and
\* returns a typed result on attempt k: the probe is called exactly k times,
\* the step's status is completed, the Aggregate Record holds that result in
\* the field of the step's kind, and no error string is appended for the step.
C3_RetryThenSuccess ==
    \A i \in StepIdx :
       LET calls == ProbeCalls(i)
           good == {j \in calls : trace[j].res = "result"}
       IN  (/\ sequence.steps[i].enabled
            /\ AttemptsOver(i)
            /\ good # {}
            /\ \A j \in calls \ good : trace[j].res = "raise")
           => /\ \A j \in good : trace[j].att = Cardinality(calls)
              /\ StepErrors(errors, i) = {}
              /\ NoLaterSameKind(i) =>
                    /\ StatusIs(step_results, Kind(i), COMPLETED)
                    /\ \A j \in good :
                          ResultField(measurement_result, Kind(i))
                             = ProbeResult("result", i, trace[j].att)

\* C4 as stated: in the outcome of every run that reached the step loop every
\* disabled step of the Plan has status skipped and its probe was never called
\* (read here on Plans with distinct kinds and retry budgets of at least 1).
C4_DisabledAlwaysSkipped ==
    (pc = "done" /\ ~aborted /\ WellFormedPlan) =>
       \A i \in StepIdx :
          ~sequence.steps[i].enabled =>
             /\ ProbeCalls(i) = {}
             /\ StatusIs(outcome.step_results, Kind(i), SKIPPED)

\* C4 as amended: the probe of a disabled step is never called, and once the
\* step loop has passed the step the status of its kind is skipped until a
\* later step of the same kind is processed; in particular it is skipped in the
\* outcome unless the loop stopped before the step or such a later step ran.
C4_DisabledSkippedWhenReached ==
    \A i \in StepIdx :
       ~sequence.steps[i].enabled =>
          /\ ProbeCalls(i) = {}
          /\ (/\ i < idx
              /\ \A j \in StepIdx : (i < j /\ j <= idx) => Kind(j) # Kind(i))
             => /\ StatusIs(step_results, Kind(i), SKIPPED)
                /\ pc = "done" => StatusIs(outcome.step_results, Kind(i), SKIPPED)

C4_Witness ==
    /\ pc = "done"
    /\ ~aborted
    /\ ~sequence.continue_on_failure
    /\ \E i \in StepIdx :
          /\ ~sequence.steps[i].enabled
          /\ sequence.steps[i].retry_attempts = 2
          /\ i < idx
          /\ StatusIs(outcome.step_results, Kind(i), SKIPPED)
          /\ \E j \in StepIdx : j # i /\ StatusIs(outcome.step_results, Kind(j), FAILED)

\* The step loop stopped at step i (the break of line 341), seen in an outcome.
StoppedAt(i) == pc = "done" /\ ~aborted /\ idx = i /\ i \in StepIdx

\* Step i did not succeed: its after_step was fired with success = false.
NotSucceeded(i) ==
    \E j \in DOMAIN trace :
       trace[j].op = "after_step" /\ trace[j].idx = i /\ trace[j].res = "false"

\* What C5 says besides the condition: all steps up to the stop are processed,
\* nothing of a later step is called or fired, no status is written for one.
C5_Frame ==
    /\ idx \in StepIdx \cup {Len(sequence.steps) + 1}
    /\ \A j \in DOMAIN trace : trace[j].idx <= idx
    /\ \A i \in StepIdx :
          (i <= idx /\ sequence.steps[i].enabled) => AttemptsOver(i)
    /\ idx \in StepIdx => DOMAIN outcome.step_results \subseteq {Kind(i) : i \in 1..idx}

C6_Steps ==
    << MeasurementStep("wifi_info", TRUE, 10, FALSE, 2, EmptyParams),
       MeasurementStep("ping", TRUE, 10, TRUE, 1, EmptyParams) >>

C6_Scenario ==
    (/\ pc = "done"
     /\ sequence.steps = C6_Steps
     /\ sequence.continue_on_failure
     /\ \A j \in ProbeCalls(1) : trace[j].res = "raise"
     /\ \A j \in ProbeCalls(2) : trace[j].res = "result")
    => /\ ProbeCalls(2) # {}
       /\ outcome.step_results = ("wifi_info" :> FAILED @@ "ping" :> COMPLETED)

\* C7: validate_prerequisites = true, continue_on_failure = false and a failing
\* check: the outcome's error list is the validator's issue list (not empty),
\* its status mapping is empty, and no probe was called.
C7_GateAbort ==
    \A j \in Calls("validate", "issues") :
       (pc = "done" /\ sequence.validate_prerequisites /\ ~sequence.continue_on_failure)
       => /\ outcome.returned
          /\ outcome.errors = [k \in 1..Len(trace[j].items) |-> IssueMsg(trace[j].items[k])]
          /\ outcome.errors # <<>>
          /\ DOMAIN outcome.step_results = {}
          /\ \A k \in DOMAIN trace : trace[k].op # "probe"

C7_Witness ==
    /\ pc = "done"
    /\ ~sequence.continue_on_failure
    /\ \E i \in StepIdx : sequence.steps[i].enabled /\ sequence.steps[i].retry_attempts >= 1
    /\ \E j \in Calls("validate", "issues") : Len(trace[j].items) = 2
    /\ Len(outcome.errors) = 2

\* C8: validate_prerequisites = true, continue_on_failure = true and a failing
\* check: the issues are in the outcome's warning list and not in its error
\* list, and the run goes on to the steps.
C8_Downgraded ==
    \A j \in Calls("validate", "issues") :
       (pc = "done" /\ sequence.validate_prerequisites /\ sequence.continue_on_failure)
       => /\ ~aborted
          /\ \A k \in DOMAIN trace[j].items :
                \E w \in DOMAIN outcome.warnings :
                   outcome.warnings[w] = IssueMsg(trace[j].items[k])
          /\ \A e \in DOMAIN outcome.errors : outcome.errors[e].src # "prereq"

\* C9: when the export call raises, the export step changes neither the status
\* mapping nor the Aggregate Record (they are what a successful export leaves),
\* appends exactly one export error string, and the call still returns its
\* Run Outcome with that mapping and record.
C9_ExportFailure ==
    [][/\ pc = "export" =>
             /\ step_results' = step_results
             /\ measurement_result' = measurement_result
             /\ pc' = "finally"
             /\ ~exc'
             /\ (Calls("export", "raise")' # {}) => errors' = Append(errors, ExportErrorMsg)
       /\ (pc = "finally" /\ Calls("export", "raise") # {}) =>
             /\ pc' = "done"
             /\ outcome'.returned
             /\ outcome'.step_results = step_results
             /\ outcome'.measurement_result = measurement_result
             /\ Cardinality({k \in DOMAIN outcome'.errors :
                               outcome'.errors[k].src = "export"}) = 1
      ]_vars

C9_Witness ==
    /\ pc = "done"
    /\ Calls("export", "raise") # {}
    /\ \E i \in StepIdx : StatusIs(outcome.step_results, Kind(i), COMPLETED)
    /\ outcome.measurement_result.wifi_info # NoResult
    /\ \E k \in DOMAIN outcome.errors : outcome.errors[k].src = "export"

\* C10: with handlers on all five event names and a run in which no step
\* failed, the handlers observe before_measurement, then before_step and
\* after_step of each enabled step in Plan order, then after_measurement, and
\* on_error is never fired.
C10_EventOrder ==
    (/\ pc = "done"
     /\ \A e \in EventNames : callbacks[e] # <<>>
     /\ aborted => \A i \in StepIdx : ~sequence.steps[i].enabled
     /\ \A j \in DOMAIN trace : ~(trace[j].op = "after_step" /\ trace[j].res = "false"))
    => /\ Observed = <<[op |-> "before_measurement", idx |-> 0]>>
                     \o ExpectedStepEvents(1)
                     \o <<[op |-> "after_measurement", idx |-> 0]>>
       /\ \A j \in DOMAIN trace :
             IsEvent(trace[j]) => trace[j].items = callbacks[trace[j].op]

C10_Witness ==
    /\ pc = "done"
    /\ \A e \in EventNames : callbacks[e] # <<>>
    /\ Len(sequence.steps) = 2
    /\ \A i \in StepIdx : sequence.steps[i].enabled
    /\ Len(Observed) = 6
    /\ \A j \in DOMAIN trace : trace[j].op # "on_error"

\* C11: a run of the default Plan in which every probe call returns a typed
\* result ends with all five kinds completed, all five result fields of the
\* Aggregate Record populated and no step error string.
C11_DefaultAllSucceed ==
    (/\ pc = "done"
     /\ sequence = create_default_sequence(config)
     /\ \A j \in DOMAIN trace : trace[j].op = "probe" => trace[j].res = "result")
    => /\ \A t \in MeasurementType :
             /\ StatusIs(outcome.step_results, t, COMPLETED)
             /\ ResultField(outcome.measurement_result, t) # NoResult
       /\ \A e \in DOMAIN outcome.errors : outcome.errors[e].src # "step"
       /\ outcome.measurement_result.errors = <<>>

\* C12 as stated: in the outcome of a run that was not aborted at the
\* prerequisite gate every enabled step of the Plan has an entry in the status
\* mapping (read here on Plans with distinct kinds and retry budgets of at
\* least 1).
C12_EveryEnabledHasEntry ==
    (pc = "done" /\ ~aborted /\ WellFormedPlan) =>
       \A i \in StepIdx :
          sequence.steps[i].enabled => Kind(i) \in DOMAIN outcome.step_results

\* C12 as amended: in an outcome every enabled step the loop reached has the
\* one entry of its kind; an enabled step has none only if the run was aborted
\* at the gate (the mapping is then empty) or the loop stopped at an earlier
\* step that did not succeed, with skip_on_error and continue_on_failure false
\* (a step after the stop has an entry only if a processed step has its kind).
C12_EntryUnlessStopped ==
    pc = "done" =>
       /\ aborted => DOMAIN outcome.step_results = {}
       /\ ~aborted =>
             \A i \in StepIdx :
                sequence.steps[i].enabled =>
                   IF i <= idx
                   THEN Kind(i) \in DOMAIN outcome.step_results
                   ELSE /\ StoppedAt(idx)
                        /\ NotSucceeded(idx)
                        /\ ~sequence.steps[idx].skip_on_error
                        /\ ~sequence.continue_on_failure
                        /\ Kind(i) \in DOMAIN outcome.step_results
                              => \E j \in 1..idx : Kind(j) = Kind(i)

\* The loop stopped at a failed first step; the enabled second step has no
\* entry.
C12_Witness ==
    /\ pc = "done"
    /\ ~aborted
    /\ Len(sequence.steps) = 2
    /\ idx = 1
    /\ sequence.steps[1].enabled /\ sequence.steps[1].retry_attempts = 1
    /\ sequence.steps[2].enabled /\ sequence.steps[2].retry_attempts = 1
    /\ Kind(1) # Kind(2)
    /\ Kind(1) \in DOMAIN outcome.step_results
    /\ Kind(2) \notin DOMAIN outcome.step_results

\* The status of kind t in a status mapping; a kind without an entry is pending.
StatusOf(sr, t) == IF t \in DOMAIN sr THEN sr[t] ELSE PENDING

\* The transitions of the status of one kind within a run.
StatusStep(old, new) ==
    \/ old = PENDING /\ new \in {IN_PROGRESS, SKIPPED}
    \/ old = IN_PROGRESS /\ new \in {COMPLETED, FAILED}

\* C13: within one run the status of every kind changes only along
\* (no entry / pending) -> in-progress -> completed or failed, or
\* (no entry / pending) -> skipped; a completed, failed or skipped status never
\* changes, whatever Plan is run (a kind may be listed in several steps).
C13_StatusTransitions ==
    [][pc # "idle" =>
          \A t \in MeasurementType :
             LET old == StatusOf(step_results, t)
                 new == StatusOf(step_results', t)
             IN  old # new => StatusStep(old, new)
      ]_vars

\* The error strings a run without step failures leaves: the issues of a
\* failed validation, then the export error if the export call raised.
GateAndExportErrors ==
    LET failed == Calls("validate", "issues")
        issues == IF failed = {} THEN <<>>
                  ELSE LET j == CHOOSE k \in failed : TRUE
                       IN  [k \in 1..Len(trace[j].items) |-> IssueMsg(trace[j].items[k])]
    IN  issues \o (IF Calls("export", "raise") = {} THEN <<>> ELSE <<ExportErrorMsg>>)

\* C14 as stated: the outcome of a run of a Plan without steps has an empty
\* status mapping and an empty error list, whatever the Plan's flags.
C14_EmptyPlanNoErrors ==
    (pc = "done" /\ sequence.steps = <<>>) =>
       /\ DOMAIN outcome.step_results = {}
       /\ outcome.errors = <<>>

\* C14 as amended: the outcome of a run of a Plan without steps has an empty
\* status mapping, no probe was called, and its error list holds exactly the
\* issues of a failed validation followed by the export error of a failed
\* export: it is empty when validation is off or passes and the export is off
\* or succeeds.
C14_EmptyPlanGateAndExportOnly ==
    (pc = "done" /\ sequence.steps = <<>>) =>
       /\ DOMAIN outcome.step_results = {}
       /\ \A j \in DOMAIN trace : trace[j].op # "probe"
       /\ outcome.errors = GateAndExportErrors
       /\ (Calls("validate", "issues") = {} /\ Calls("export", "raise") = {})
             => outcome.errors = <<>>

\* An empty Plan whose validation failed and whose export raised.
C14_Witness ==
    /\ pc = "done"
    /\ sequence.steps = <<>>
    /\ sequence.continue_on_failure
    /\ Calls("validate", "issues") # {}
    /\ Calls("export", "raise") # {}
    /\ Len(outcome.errors) >= 2
    /\ DOMAIN outcome.step_results = {}

RECURSIVE RetryBudget(_)
\* The sum of the retry budgets of steps i, i+1, ... of the Plan.
RetryBudget(i) ==
    IF i > Len(sequence.steps) THEN 0
    ELSE sequence.steps[i].retry_attempts + RetryBudget(i + 1)

\* The ways a run ends: the loop processed every step, or it stopped at the
\* first step that did not succeed with skip_on_error and continue_on_failure
\* false, or the prerequisite gate closed without continue.
EndedAsPlanned ==
    \/ ~aborted /\ idx = Len(sequence.steps) + 1
    \/ /\ StoppedAt(idx)
       /\ NotSucceeded(idx)
       /\ ~sequence.steps[idx].skip_on_error
       /\ ~sequence.continue_on_failure
       /\ \A i \in 1..(idx - 1) :
             ~(NotSucceeded(i) /\ ~sequence.steps[i].skip_on_error)
    \/ aborted /\ Calls("validate", "issues") # {} /\ ~sequence.continue_on_failure

\* C15: every started run reaches the return of its Run Outcome; it never
\* makes more probe calls than the sum of its steps' retry budgets, and it ends
\* having processed all steps or stopped at the first non-skippable failure.
C15_Terminates ==
    /\ [](Cardinality({j \in DOMAIN trace : trace[j].op = "probe"}) <= RetryBudget(1))
    /\ [](pc = "done" => outcome.returned /\ EndedAsPlanned)
    /\ (pc # "idle") ~> (pc = "done")

\* A returned run that used the whole budget of a Plan of two steps.
C15_Witness ==
    /\ pc = "done"
    /\ outcome.returned
    /\ Len(sequence.steps) = 2
    /\ RetryBudget(1) = 2 * MaxRetry
    /\ Cardinality({j \in DOMAIN trace : trace[j].op = "probe"}) = RetryBudget(1)

\* The kinds whose final status is failed.
FailedKinds(sr) == {t \in DOMAIN sr : sr[t] = FAILED}

\* The step error strings of an error list.
AllStepErrors(errs) == {j \in DOMAIN errs : errs[j].src = "step"}

\* C16 as stated: in every outcome the error list has at most as many entries
\* as there are steps whose final status is failed.
C16_ErrorsAtMostFailed ==
    pc = "done" => Len(outcome.errors) <= Cardinality(FailedKinds(outcome.step_results))

\* C16 as amended: in every outcome the number of failed statuses is at most
\* the size of the error list: every failed kind has a step error string of
\* its own in the list, and the list holds besides the step error strings only
\* the issues of a failed validation and the error of a failed export.
C16_FailedAtMostErrors ==
    pc = "done" =>
       /\ Cardinality(FailedKinds(outcome.step_results)) <= Len(outcome.errors)
       /\ \A t \in FailedKinds(outcome.step_results) :
             \E j \in AllStepErrors(outcome.errors) : outcome.errors[j].kind = t
       /\ Len(outcome.errors)
             = Cardinality(AllStepErrors(outcome.errors)) + Len(GateAndExportErrors)

\* Two failed kinds, with a validation issue and an export error besides.
C16_Witness ==
    /\ pc = "done"
    /\ Cardinality(FailedKinds(outcome.step_results)) = 2
    /\ Calls("validate", "issues") # {}
    /\ Calls("export", "raise") # {}
    /\ Len(outcome.errors) >= 4

\* The default ordering of the probe kinds.
DefaultOrder == <<"wifi_info", "ping", "iperf_tcp", "iperf_udp", "file_transfer">>
Rank(t) == CHOOSE i \in DOMAIN DefaultOrder : DefaultOrder[i] = t

\* The step of the default Plan of kind t.
DefaultStepOf(t) ==
    LET d == create_default_sequence(config).steps
    IN  d[CHOOSE i \in DOMAIN d : d[i].measurement_type = t]

\* C17: the Plan create_custom_sequence returns for a set S of kinds has
\* exactly the kinds of S as its steps, each once and enabled, in the default
\* ordering; no step of a kind outside S is present, enabled or disabled.
C17_CustomFilter ==
    built.op = "create_custom_sequence" =>
       LET S == built.enabled_measurements
           steps == built.plan.steps
       IN  /\ {steps[i].measurement_type : i \in DOMAIN steps} = S
           /\ Len(steps) = Cardinality(S)
           /\ \A i \in DOMAIN steps : steps[i].enabled
           /\ \A i, j \in DOMAIN steps :
                 i < j => Rank(steps[i].measurement_type) < Rank(steps[j].measurement_type)

\* A custom Plan of the last and the first kind of the default ordering.
C17_Witness ==
    /\ built.op = "create_custom_sequence"
    /\ built.enabled_measurements = {"file_transfer", "wifi_info"}
    /\ Len(built.plan.steps) = 2
    /\ built.plan.steps[1].measurement_type = "wifi_info"
    /\ built.plan.steps[2].measurement_type = "file_transfer"

\* C18: every step of the Plan create_custom_sequence returns has the timeout
\* override of its kind if there is one and the default step's timeout
\* otherwise, the default step's parameters with the keys of its kind's
\* parameter override replaced or added, and the default step's retry budget
\* and skip_on_error; overrides of kinds that are not selected add no step.
C18_CustomOverrides ==
    built.op = "create_custom_sequence" =>
       LET S == built.enabled_measurements
           to == built.timeout_overrides
           po == built.parameter_overrides
           steps == built.plan.steps
       IN  /\ \A i \in DOMAIN steps :
                 LET t == steps[i].measurement_type
                     d == DefaultStepOf(t)
                     o == IF t \in DOMAIN po THEN po[t] ELSE EmptyParams
                 IN  /\ steps[i].timeout = IF t \in DOMAIN to THEN to[t] ELSE d.timeout
                     /\ DOMAIN steps[i].parameters = (DOMAIN d.parameters) \cup (DOMAIN o)
                     /\ \A k \in DOMAIN o : steps[i].parameters[k] = o[k]
                     /\ \A k \in (DOMAIN d.parameters) \ (DOMAIN o) :
                           steps[i].parameters[k] = d.parameters[k]
                     /\ steps[i].retry_attempts = d.retry_attempts
                     /\ steps[i].skip_on_error = d.skip_on_error
                     /\ (t \notin DOMAIN to /\ t \notin DOMAIN po) => steps[i] = d
           /\ \A t \in ((DOMAIN to) \cup (DOMAIN po)) \ S :
                 \A i \in DOMAIN steps : steps[i].measurement_type # t

\* A custom Plan with an overridden and a default step, built with overrides
\* for a kind that is not selected.
C18_Witness ==
    /\ built.op = "create_custom_sequence"
    /\ built.enabled_measurements = {"ping", "iperf_udp"}
    /\ "file_transfer" \in DOMAIN built.timeout_overrides
    /\ "wifi_info" \in DOMAIN built.parameter_overrides
    /\ built.plan.steps[1].timeout = 5
    /\ built.plan.steps[1].parameters.count = 3
    /\ built.plan.steps[1].parameters.size = 64
    /\ built.plan.steps[1].parameters.interval = config.ping_interval
    /\ built.plan.steps[2] = DefaultStepOf("iperf_udp")

ProbeReturned(i) == \E j \in ProbeCalls(i) : trace[j].res # "raise"

\* The events of the steps from i on, for a run that processes every step.
RECURSIVE StepEventsWithErrors(_)
StepEventsWithErrors(i) ==
    IF i > Len(sequence.steps) THEN <<>>
    ELSE (IF sequence.steps[i].enabled
          THEN <<[op |-> "before_step", idx |-> i]>>
               \o (IF ProbeReturned(i) THEN <<>> ELSE <<[op |-> "on_error", idx |-> i]>>)
               \o <<[op |-> "after_step", idx |-> i]>>
          ELSE <<>>) \o StepEventsWithErrors(i + 1)

\* C21: every dispatch of an event invokes each handler registered for it
\* once, in registration order, also the handlers registered after one that
\* raises; no handler failure reaches the run: the call returns, and its
\* events, status mapping and error list are those the probe outcomes alone
\* determine.
C21_Dispatch ==
    /\ \A j \in DOMAIN trace :
          IsEvent(trace[j]) => trace[j].items = callbacks[trace[j].op]
    /\ ~exc
    /\ pc # "raised"
    /\ pc = "done" =>
          /\ Observed = <<[op |-> "before_measurement", idx |-> 0]>>
                          \o StepEventsWithErrors(1)
                          \o <<[op |-> "after_measurement", idx |-> 0]>>
          /\ \A i \in StepIdx :
                /\ outcome.step_results[Kind(i)]
                      = IF ~sequence.steps[i].enabled THEN SKIPPED
                        ELSE IF ProbeReturned(i) THEN COMPLETED ELSE FAILED
                /\ Cardinality(StepErrors(outcome.errors, i))
                      = IF ~sequence.steps[i].enabled \/ ProbeReturned(i) THEN 0 ELSE 1
          /\ Len(outcome.errors) = Cardinality(AllStepErrors(outcome.errors))

\* A failed step on an engine whose on_error and after_step channels each have
\* a handler that always raises registered before another handler.
C21_Witness ==
    /\ pc = "done"
    /\ callbacks["on_error"] = <<"failing", "h1">>
    /\ callbacks["after_step"] = <<"failing", "h1">>
    /\ callbacks["before_measurement"] = <<"h1", "failing">>
    /\ \E j \in DOMAIN trace :
          trace[j].op = "on_error" /\ trace[j].items = <<"failing", "h1">>
    /\ \E j \in DOMAIN trace :
          trace[j].op = "after_step" /\ trace[j].items = <<"failing", "h1">>
    /\ StatusIs(outcome.step_results, "wifi_info", FAILED)

\* C22: when cleanup_on_exit is true and the cleanup call raises, the end of
\* the run appends exactly one cleanup warning, leaves the error list and the
\* status mapping as they were, fires after_measurement after the cleanup call
\* and returns the Run Outcome carrying that warning.
C22_CleanupFailure ==
    [][(pc = "finally" /\ Calls("cleanup", "raise")' # {}) =>
          /\ sequence.cleanup_on_exit
          /\ warnings' = Append(warnings, CleanupWarningMsg)
          /\ errors' = errors
          /\ step_results' = step_results
          /\ Len(trace') = Len(trace) + 2
          /\ trace'[Len(trace) + 1].op = "cleanup"
          /\ trace'[Len(trace) + 2].op = "after_measurement"
          /\ pc' = "done"
          /\ outcome'.returned
          /\ outcome'.warnings = warnings'
          /\ outcome'.errors = errors
          /\ outcome'.step_results = step_results
      ]_vars

\* A returned run with a completed and a failed step whose cleanup raised.
C22_Witness ==
    /\ pc = "done"
    /\ Calls("cleanup", "raise") # {}
    /\ Calls("export", "ok") # {}
    /\ outcome.warnings = <<CleanupWarningMsg>>
    /\ Len(outcome.errors) = 1
    /\ StatusIs(outcome.step_results, "wifi_info", COMPLETED)
    /\ StatusIs(outcome.step_results, "ping", FAILED)
    /\ trace[Len(trace)].op = "after_measurement"

\* run_continuous_measurements is over: it returned, or SystemExit left it.
Terminated == main.pc \in {"returned", "exited"}

\* C23: in continuous mode with max_measurements = M >= 1 and no shutdown
\* request every run_single_measurement call performs one cycle through the
\* engine and adds one to measurement_count, the loop ends, and when it has
\* ended exactly M cycles were performed.
C23_MaxReached ==
    /\ [][main'.calls = main.calls + 1 =>
             /\ main'.cycles = main.cycles + 1
             /\ state'.measurement_count = state.measurement_count + 1]_vars
    /\ []((main.pc = "returned" /\ main.max_measurements >= 1
             /\ ~state.shutdown_requested)
           => main.cycles = main.max_measurements
              /\ state.measurement_count = main.max_measurements)
    /\ (main.pc = "loop" /\ main.max_measurements >= 1)
          ~> (Terminated \/ state.shutdown_requested)

\* The first signal is handled: shutdown is requested from here on.
FirstSignal == ~state.shutdown_requested /\ state'.shutdown_requested

\* No chunk of sleep is begun and the method ends once shutdown is requested.
SleepLeftAndTerminates ==
    /\ [][(state.shutdown_requested /\ main'.pc = "sleeping") => main.pc = "sleeping"]_vars
    /\ state.shutdown_requested ~> Terminated

RECURSIVE CountType(_, _)
CountType(hist, type) ==
    IF hist = <<>> THEN 0
    ELSE (IF hist[1].error_type = type THEN 1 ELSE 0) + CountType(Tail(hist), type)

\* The history holds at most max_history_size entries, the most recently
\* recorded ones in order of occurrence; the counters cover the dropped ones.
HistoryKept ==
    LET total == Sum(error_counts)
        n == Len(error_history)
    IN  /\ n <= error_handler.max_history_size
        /\ n = Min(total, error_handler.max_history_size)
        /\ \A i \in 1..n : error_history[i].operation = <<"record", total - n + i>>
        /\ \A t \in ErrorType : error_counts[t] >= CountType(error_history, t)
        /\ total <= n => \A t \in ErrorType : error_counts[t] = CountType(error_history, t)

\* Each recording call adds one to the counter of the recorded type alone and
\* puts that error last in the history.
EveryErrorCounted ==
    [][error_counts' # error_counts =>
         \E t \in ErrorType :
            /\ error_counts' = [error_counts EXCEPT ![t] = @ + 1]
            /\ error_history'[Len(error_history')].error_type = t]_vars

\* C25: after any sequence of error-recording calls the history holds at most
\* max_history_size entries, and they are the most recently recorded errors in
\* order of occurrence (the oldest are dropped first), while the per-type
\* counters keep counting every recorded error.
C25_History == []HistoryKept /\ EveryErrorCounted

\* More errors were recorded than the history holds, of both types.
C25_Witness ==
    /\ Sum(error_counts) > error_handler.max_history_size + 1
    /\ Len(error_history) = error_handler.max_history_size
    /\ error_handler.max_history_size >= 2
    /\ \A t \in ErrorType : error_counts[t] >= 1

\* The checks in the order validate_prerequisites makes them, each with the
\* outcome that reports failure and the issue it then appends.
Checks ==
    <<[of |-> "wifi", fails |-> "down", issue |-> "WiFi interface is not connected"],
      [of |-> "target", fails |-> "unreachable", issue |-> "Primary target is not reachable"],
      [of |-> "iperf", fails |-> "unavailable", issue |-> "iPerf3 server unavailable"],
      [of |-> "config", fails |-> "invalid", issue |-> "Configuration validation failed"]>>

\* The issues of the failing checks among the first n, in check order.
RECURSIVE IssuesOf(_, _)
IssuesOf(env, n) ==
    IF n = 0 THEN <<>>
    ELSE IF env[Checks[n].of] = Checks[n].fails
         THEN Append(IssuesOf(env, n - 1), Checks[n].issue)
         ELSE IssuesOf(env, n - 1)

\* C26: validate_prerequisites makes its four checks independently: for every
\* subset of checks that report failure the issue list holds exactly one
\* issue per failing check, in check order, and none for a passing check; ok
\* is true iff the issue list is empty.
C26_IndependentChecks ==
    validation.called =>
        /\ ~ValidateUnexpected(validation.env) =>
              /\ ~validation.raised
              /\ validation.issues = IssuesOf(validation.env, 4)
        /\ ~validation.raised => (validation.ok <=> validation.issues = <<>>)

\* All four checks reported failure and all four issues were collected.
C26_Witness ==
    /\ validation.called
    /\ \A n \in 1..4 : validation.env[Checks[n].of] = Checks[n].fails
    /\ Len(validation.issues) = 4
    /\ ~validation.ok

\* The availability check is the first check to raise past its own handler.
AvailabilityRaises(env) ==
    env.wifi # "error" /\ env.target # "error" /\ env.iperf = "error"

\* The server-unavailable class becomes one issue and the configuration check
\* is still made.
UnavailableIsIssue ==
    (validation.called /\ ~validation.raised /\ validation.env.iperf = "unavailable"
       /\ ~ValidateUnexpected(validation.env))
    => /\ validation.issues = IssuesOf(validation.env, 4)
       /\ \E i \in 1..Len(validation.issues) :
             validation.issues[i] = "iPerf3 server unavailable"

\* C27 (as stated): an exception of the availability check other than the
\* server-unavailable class leaves validate_prerequisites and is not turned
\* into an issue; the server-unavailable class is turned into one issue.
C27_Propagates ==
    /\ (validation.called /\ AvailabilityRaises(validation.env)) => validation.raised
    /\ UnavailableIsIssue

\* C27 (amended): an exception of the availability check other than the
\* server-unavailable class does not leave validate_prerequisites: it is
\* recorded with the error handler, "Unexpected error during validation" is
\* appended to the issues of the checks made before, the configuration check
\* is not made and ok is false; the server-unavailable class is turned into
\* one issue.
C27_CaughtAsIssue ==
    /\ (validation.called /\ AvailabilityRaises(validation.env))
       => /\ ~validation.raised
          /\ validation.issues =
                Append(IssuesOf(validation.env, 2), "Unexpected error during validation")
          /\ ~validation.ok
          /\ error_counts["measurement_error"] >= 1
          /\ error_history # <<>>
          /\ error_history[Len(error_history)] =
                ErrorContext("measurement_error", "validate_prerequisites")
    /\ UnavailableIsIssue

\* The availability check raised after an earlier check had failed and
\* before a configuration check that would have failed.
C27_Witness ==
    /\ validation.called
    /\ validation.env = [wifi |-> "down", target |-> "ok", iperf |-> "error",
                          config |-> "invalid"]
    /\ validation.issues =
          <<"WiFi interface is not connected", "Unexpected error during validation">>

\* The operations of the trace, in order.
TraceOps == [i \in 1..Len(trace) |-> trace[i].op]

\* C28 (as stated): validation completes before before_measurement is fired,
\* and a run the prerequisite gate aborts fires neither before_measurement nor
\* after_measurement.
C28_GateBeforeRun ==
    /\ \A i, j \in 1..Len(trace) :
          (trace[i].op = "before_measurement" /\ trace[j].op = "validate") => j < i
    /\ (aborted /\ pc = "done") =>
          \A i \in 1..Len(trace) :
             trace[i].op \notin {"before_measurement", "after_measurement"}

\* C28 (amended): before_measurement is fired once, first of all, before the
\* prerequisite validation, which follows it directly when the Plan asks for
\* it; a run the prerequisite gate aborts executes no step, but still makes
\* the cleanup call (when cleanup_on_exit) and fires after_measurement before
\* its outcome is returned.
C28_RunBeforeGate ==
    /\ trace # <<>> => trace[1].op = "before_measurement"
    /\ \A i \in 1..Len(trace) :
          /\ trace[i].op = "before_measurement" => i = 1
          /\ trace[i].op = "validate" => (i = 2 /\ sequence.validate_prerequisites)
    /\ (pc \notin {"idle", "validate"} /\ sequence.validate_prerequisites
          /\ Len(trace) >= 2) => trace[2].op = "validate"
    /\ aborted => /\ pc \in {"finally", "done"}
                  /\ trace[2].res = "issues"
                  /\ ~sequence.continue_on_failure
    /\ (aborted /\ pc = "done") =>
          /\ TraceOps = IF sequence.cleanup_on_exit
                         THEN <<"before_measurement", "validate", "cleanup",
                                "after_measurement">>
                         ELSE <<"before_measurement", "validate", "after_measurement">>
          /\ outcome.returned
          /\ step_results = EmptyDict

\* The gate aborted a run whose before_measurement and after_measurement
\* handlers were both invoked.
C28_Witness ==
    /\ aborted
    /\ pc = "done"
    /\ trace[1].op = "before_measurement"
    /\ trace[1].items # <<>>
    /\ trace[Len(trace)].op = "after_measurement"
    /\ trace[Len(trace)].items # <<>>

\* The positions of the trace where on_error was fired for the step at i.
OnErrorAt(i) == {p \in 1..Len(trace) : trace[p].op = "on_error" /\ trace[p].idx = i}

\* C29: on_error is fired exactly once for each step that ends failed, after
\* that step's last attempt and before its after_step; it is not fired for a
\* failed attempt that another attempt follows, nor for a step that ends
\* completed or skipped.
C29_OnErrorOnce ==
    /\ \A p \in 1..Len(trace) :
          trace[p].op = "on_error" =>
             /\ p > 1
             /\ trace[p - 1].op = "probe"
             /\ trace[p - 1].idx = trace[p].idx
             /\ trace[p - 1].att = sequence.steps[trace[p].idx].retry_attempts
             /\ OnErrorAt(trace[p].idx) = {p}
             /\ p < Len(trace) =>
                   /\ trace[p + 1].op = "after_step"
                   /\ trace[p + 1].idx = trace[p].idx
                   /\ trace[p + 1].res = "false"
    /\ \A p \in 1..Len(trace) :
          (trace[p].op = "probe" /\ p < Len(trace)
             /\ trace[p].att < sequence.steps[trace[p].idx].retry_attempts)
          => trace[p + 1].op # "on_error"
    /\ pc = "after_step" =>
          LET status == step_results[CurStep.measurement_type]
          IN  /\ status = FAILED <=> OnErrorAt(idx) # {}
              /\ status = FAILED => trace[Len(trace)].op = "on_error"
              /\ status = COMPLETED => step_success
    /\ \A i \in 1..Len(sequence.steps) :
          ~sequence.steps[i].enabled => OnErrorAt(i) = {}

\* A step failed its first attempt without on_error, failed its second and
\* last one, the on_error handler was invoked and after_step followed.
C29_Witness ==
    /\ Len(trace) >= 4
    /\ LET n == Len(trace)
       IN  /\ trace[n].op = "after_step"
           /\ trace[n].res = "false"
           /\ trace[n - 1].op = "on_error"
           /\ trace[n - 1].items # <<>>
           /\ trace[n - 2].op = "probe"
           /\ trace[n - 2].att = 2
           /\ trace[n - 3].op = "probe"
           /\ trace[n - 3].idx = trace[n].idx

\* The steps that ended failed: they had attempts and after_step was fired for
\* them with flag false.
FailedSteps ==
    {i \in 1..Len(sequence.steps) :
        /\ sequence.steps[i].retry_attempts >= 1
        /\ \E p \in 1..Len(trace) :
              trace[p].op = "after_step" /\ trace[p].idx = i /\ trace[p].res = "false"}

\* The step error strings of an error list, in order.
StepErrorsOf(errs) == SelectSeq(errs, LAMBDA e : e.src = "step")

\* C30: at the end of every run the Aggregate Record's own error list has as
\* many entries as steps ended failed: one per exhausted step, carrying the
\* message of the outcome's error string of that step, in the same order; the
\* attempts that were retried, the prerequisite issues and an export failure
\* add none.
C30_AggregateErrors ==
    pc = "done" =>
        LET own == outcome.measurement_result.errors
            strings == StepErrorsOf(outcome.errors)
        IN  /\ Len(own) = Cardinality(FailedSteps)
            /\ Len(own) = Len(strings)
            /\ \A j \in 1..Len(own) : own[j] = [stamped |-> strings[j]]
            /\ \A j \in 1..Len(own) :
                  /\ own[j].stamped.idx \in FailedSteps
                  /\ own[j].stamped.att = sequence.steps[own[j].stamped.idx].retry_attempts
            /\ own = measurement_result.errors

\* Two steps were exhausted, one of them after a retried attempt, in a run with
\* prerequisite issues and a failed export.
C30_Witness ==
    /\ pc = "done"
    /\ Cardinality(FailedSteps) = 2
    /\ Len(outcome.measurement_result.errors) = 2
    /\ \E i \in FailedSteps : sequence.steps[i].retry_attempts = 2
    /\ Calls("validate", "issues") # {}
    /\ Calls("export", "raise") # {}
    /\ Len(outcome.errors) >= 4

\* The probe call the step to the next state makes, when it makes one: the
\* entry it appends to the trace.
ProbeMade == Len(trace') > Len(trace) /\ trace'[Len(trace) + 1].op = "probe"
ProbeEntry == trace'[Len(trace) + 1]

\* C31: a successful non-empty probe result of kind K replaces the content of
\* K's field in the record and leaves the fields of the other four kinds, the
\* record's error list and its identifier unchanged.
C31_ResultReplacesField ==
    [][(ProbeMade /\ ProbeEntry.res = "result") =>
         /\ ResultField(measurement_result', ProbeEntry.kind)
               = [idx |-> ProbeEntry.idx, att |-> ProbeEntry.att]
         /\ \A t \in MeasurementType \ {ProbeEntry.kind} :
               ResultField(measurement_result', t) = ResultField(measurement_result, t)
         /\ measurement_result'.errors = measurement_result.errors
         /\ measurement_result'.measurement_id = measurement_result.measurement_id]_vars

\* C32: when a step's probe call returns an empty result without failing,
\* merging it is a no-op: every field of the record, that kind's field
\* included, is left as it was, no error string is appended, and the step is
\* not retried: it is completed and after_step is next.
C32_NilIsNoOp ==
    [][(ProbeMade /\ ProbeEntry.res = "none") =>
         /\ measurement_result' = measurement_result
         /\ errors' = errors
         /\ step_success'
         /\ step_results'[ProbeEntry.kind] = COMPLETED
         /\ trace' = Append(trace, ProbeEntry)
         /\ pc' = "after_step"]_vars

\* The second step of a kind returned an empty result at the first of its two
\* attempts; the field still holds the result of the first step.
C32_Witness ==
    /\ pc = "after_step"
    /\ idx = 2
    /\ trace[Len(trace)].op = "probe"
    /\ trace[Len(trace)].res = "none"
    /\ trace[Len(trace)].att = 1
    /\ CurStep.retry_attempts = 2
    /\ CurStep.measurement_type = "wifi_info"
    /\ measurement_result.wifi_info = [idx |-> 1, att |-> 1]

\* The kinds whose status is in-progress.
InProgressKinds == {t \in DOMAIN step_results : step_results[t] = IN_PROGRESS}

\* A step is being executed: before_step was fired for it, after_step not yet.
Executing == pc \in {"attempt", "after_step"}

\* Steps are started in Plan order, and when before_step is fired for a step
\* every step started before has had all its attempts and its after_step.
StartedInOrder ==
    \A q \in 1..Len(trace) :
       trace[q].op = "before_step" =>
          \A p \in 1..(q - 1) :
             /\ trace[p].idx < trace[q].idx
             /\ trace[p].op = "before_step" =>
                   \E r \in (p + 1)..(q - 1) :
                      /\ trace[r].op = "after_step"
                      /\ trace[r].idx = trace[p].idx
                      /\ \A m \in 1..Len(trace) :
                            (trace[m].op = "probe" /\ trace[m].idx = trace[p].idx)
                            => (p < m /\ m < r)

NoAttemptKinds ==
    {sequence.steps[i].measurement_type :
        i \in {j \in 1..Len(sequence.steps) :
                  /\ sequence.steps[j].retry_attempts = 0
                  /\ \E p \in 1..Len(trace) :
                        trace[p].op = "after_step" /\ trace[p].idx = j}}

C34_OutcomesKept ==
    /\ \A i \in 1..Len(returned) : Current(returned[i]) = returned[i].at_return
    /\ (pc = "done" /\ outcome.returned) =>
          \A t \in DOMAIN outcome.step_results :
             \E i \in 1..Len(sequence.steps) : sequence.steps[i].measurement_type = t
    /\ pc = "validate" => step_results = EmptyDict

\* The first run was aborted by the gate; the second run, a later one, has
\* returned with a status in its mapping.
C34_Witness ==
    /\ Len(returned) = 1
    /\ returned[1].at_return.execution_time = "zero"
    /\ returned[1].at_return.errors # <<>>
    /\ returned[1].at_return.step_results = EmptyDict
    /\ pc = "done"
    /\ outcome.returned
    /\ outcome.step_results # EmptyDict

\* The positions of the events of a name among the events fired so far.
EventsNamed(name) == {j \in 1..Len(Observed) : Observed[j].op = name}

\* C35: in every run, a run aborted at the prerequisite gate included,
\* before_measurement is fired exactly once and is the first event,
\* after_measurement is fired exactly once and is the last event, and the
\* engine's current run identifier is set from the start of the run until
\* after_measurement and is None when the run has returned.
C35_RunEvents ==
    /\ pc = "idle" => (current_measurement_id = None /\ trace = <<>>)
    /\ pc \in {"validate", "loop", "attempt", "after_step", "export", "finally"} =>
          /\ current_measurement_id = RunId
          /\ EventsNamed("before_measurement") = {1}
          /\ EventsNamed("after_measurement") = {}
    /\ pc \in {"done", "raised"} =>
          /\ outcome.returned
          /\ current_measurement_id = None
          /\ EventsNamed("before_measurement") = {1}
          /\ EventsNamed("after_measurement") = {Len(Observed)}
          /\ trace[1].op = "before_measurement"
          /\ trace[Len(trace)].op = "after_measurement"

\* A run that executed a step has returned; the handlers of its first and of
\* its last event were invoked.
C35_Witness ==
    /\ pc = "done"
    /\ ~aborted
    /\ EventsNamed("after_step") # {}
    /\ trace[1].items # <<>>
    /\ trace[Len(trace)].items # <<>>
    /\ current_measurement_id = None

\* The Plan's steps all have an attempt to make and are of distinct kinds.
RetriedDistinct(seq) ==
    /\ \A i \in 1..Len(seq.steps) : seq.steps[i].retry_attempts >= 1
    /\ \A i, j \in 1..Len(seq.steps) :
          i # j => seq.steps[i].measurement_type # seq.steps[j].measurement_type

\* C36: for every Plan whose steps all have retry_attempts >= 1 and pairwise
\* distinct kinds, every entry of a returned Step-Status mapping is completed,
\* failed or skipped (none is pending or in-progress), and an entry is
\* completed exactly when after_step was fired for that step with flag true.
C36_FinalStatuses ==
    (pc = "done" /\ RetriedDistinct(sequence)) =>
        \A t \in DOMAIN outcome.step_results :
           /\ outcome.step_results[t] \in {COMPLETED, FAILED, SKIPPED}
           /\ outcome.step_results[t] = COMPLETED
                 <=> \E p \in 1..Len(trace) :
                        /\ trace[p].op = "after_step"
                        /\ trace[p].kind = t
                        /\ trace[p].res = "true"

\* A Plan of two kinds returned one completed and one failed.
C36_Witness ==
    /\ pc = "done"
    /\ RetriedDistinct(sequence)
    /\ Len(sequence.steps) = 2
    /\ \E t, u \in DOMAIN outcome.step_results :
          outcome.step_results[t] = COMPLETED /\ outcome.step_results[u] = FAILED

\* The positions of the trace where a collaborator call or event op occurs.
At(op) == {p \in 1..Len(trace) : trace[p].op = op}

\* C37: when cleanup_on_exit is true the cleanup call is made exactly once per
\* run on every path (normal completion, early stop, export failure,
\* prerequisite abort), after every probe call and after the export, and
\* before after_measurement; when it is false the run never makes it.
C37_CleanupOnce ==
    /\ pc \notin {"done", "raised"} => At("cleanup") = {}
    /\ pc \in {"done", "raised"} =>
          IF sequence.cleanup_on_exit
          THEN /\ At("cleanup") = {Len(trace) - 1}
               /\ At("after_measurement") = {Len(trace)}
               /\ \A p \in At("probe") \cup At("export") : p < Len(trace) - 1
          ELSE At("cleanup") = {}

\* The loop stopped early after a failed step, the export failed, and the
\* cleanup call was made before the run returned.
C37_Witness ==
    /\ pc = "done"
    /\ At("cleanup") # {}
    /\ Calls("export", "raise") # {}
    /\ Len(sequence.steps) = 2
    /\ sequence.steps[2].enabled
    /\ sequence.steps[2].measurement_type \notin DOMAIN outcome.step_results
    /\ Calls("probe", "raise") # {}

\* C38: when export_results is true and the run is not aborted at the gate,
\* the export call is made exactly once, after the after_step of the last
\* processed step (also when the loop stopped early) and before the cleanup
\* call and after_measurement; when export_results is false or the gate
\* aborted the run it is never made.
C38_ExportOnce ==
    /\ pc \notin {"finally", "done", "raised"} => At("export") = {}
    /\ pc \in {"finally", "done", "raised"} =>
          IF sequence.export_results /\ ~aborted
          THEN \E e \in 1..Len(trace) :
                  /\ At("export") = {e}
                  /\ \A p \in At("before_step") \cup At("probe") \cup At("on_error")
                                \cup At("after_step") : p < e
                  /\ e > 1 /\ trace[e - 1].op \in {"after_step", "validate",
                                                     "before_measurement"}
                  /\ \A p \in At("cleanup") \cup At("after_measurement") : e < p
          ELSE At("export") = {}

\* The loop stopped after its first step failed, leaving an enabled step
\* unprocessed, and the export call was made.
C38_Witness ==
    /\ pc = "done"
    /\ ~aborted
    /\ At("export") # {}
    /\ trace[CHOOSE e \in At("export") : TRUE].res = "ok"
    /\ Len(sequence.steps) = 2
    /\ sequence.steps[2].enabled
    /\ sequence.steps[2].measurement_type \notin DOMAIN outcome.step_results
    /\ At("after_step") # {}

\* The number of issues the validations of the run reported.
RECURSIVE IssuesReported(_)
IssuesReported(n) ==
    IF n = 0 THEN 0
    ELSE (IF trace[n].op = "validate" THEN Len(trace[n].items) ELSE 0)
         + IssuesReported(n - 1)

\* C39: for every run that reaches the step loop the size of the outcome's
\* error list is the number of prerequisite issues a failed validation
\* reported, plus the number of steps that exhausted their attempts, plus one
\* if the export failed; retried attempts, handler failures and cleanup
\* failures add nothing.
C39_ErrorCount ==
    (pc = "done" /\ ~aborted) =>
        Len(outcome.errors)
          = IssuesReported(Len(trace)) + Cardinality(FailedSteps)
            + (IF Calls("export", "raise") # {} THEN 1 ELSE 0)

\* A run with prerequisite issues, a retried and exhausted step whose on_error
\* handler was invoked, a failed export and a failed cleanup.
C39_Witness ==
    /\ pc = "done"
    /\ ~aborted
    /\ IssuesReported(Len(trace)) >= 1
    /\ \E i \in FailedSteps : sequence.steps[i].retry_attempts = 2
    /\ \E p \in At("on_error") : trace[p].items # <<>>
    /\ Calls("export", "raise") # {}
    /\ Calls("cleanup", "raise") # {}
    /\ Len(outcome.errors) >= 3

====
